---- MODULE Spec2Model ----
(***************************************************************************)
(* A model of capybot's session-and-state coordination engine:             *)
(*   - RatingStore   (internal/bot/rating.go): reviews, blocked users,     *)
(*                   next ID, write-through JSON persistence;              *)
(*   - RatingHandler (internal/bot/rating.go): the per-user rating         *)
(*                   dialogue, the search prompt and the admin decisions;  *)
(*   - RateLimit     (FeatureHandler.RateLimit): one command per second.   *)
(*                                                                         *)
(* Strings are sequences of one-character strings, so that trimming, case  *)
(* folding, substring search and byte length are computed, not assumed.    *)
(* A character outside ASCII is written by its code point ("U+0142").      *)
(***************************************************************************)
EXTENDS Integers, Sequences, FiniteSets, TLC

VARIABLES
    store,      \* the RatingStore: Reviews, BlockedUsers, NextID, and the content of its file
    sessions,   \* RatingHandler.sessions: user ID -> RatingSession (a partial map)
    rateLimit,  \* FeatureHandler.rateLimit: user ID -> time of the last command (a partial map)
    now,        \* the wall clock, in milliseconds
    upd,        \* the inbound update handled last, and how its handler ended
    out,        \* the transport calls the last handler made, in order
    flow,       \* per user: how far the canonical /rate dialogue has been followed
    ret,        \* the RatingStore call made last: its arguments, what it returned, the
                \* highest review ID any AddReview had returned before it, and whether
                \* a restart has lost reviews that were only in memory
    cmds,       \* per user: the last rate-limited commands (time, whether the handler ran)
    blk,        \* the handleAdminBlock call in progress: its review and the steps it has done
    blacklist,  \* the Blacklist: Phrases, and the content of its file
    chk,        \* the Blacklist call made last: its argument and what it returned
    state,      \* the UserState: the newbie flags and the counters of correct answers
    restricted, \* the users whose rights in the group are restricted (kept by the platform)
    quiz,       \* per user: how far the quiz has been followed, and how it ended
    nupd,       \* the number of inbound updates (or store calls) handled so far
    adders,     \* the AddReview calls that run at once: the holder of the store's lock
                \* and, per goroutine, the statement it is at and its review
    exec,       \* the handler followed one lock operation and transport call at a time:
                \* its events, how many it has performed, the locks it holds
    race        \* two handlers that run at once for one user: the session objects, the
                \* session map of object references, and how far each handler has got

vars == <<adders, store, sessions, rateLimit, now, upd, out, flow, ret, cmds, blk, blacklist, chk, state, restricted, quiz, nupd, race, exec>>

----------------------------------------------------------------------------
(* Bounds of the model *)

\* inbound updates handled in one behaviour of Spec
MaxUpdates == 4
\* inbound updates handled in one behaviour of SpecTrip (the canonical dialogue has six)
MaxTripUpdates == 6
\* operations applied in one behaviour of the store specification
MaxStoreOps == 5
\* the wall clock stops advancing after this many ticks
MaxTicks == 3
\* rate-limited commands remembered per user
MaxCmds == 3
\* calls on the Blacklist in one behaviour of SpecFilter
MaxFilterOps == 4
\* inbound updates handled in one behaviour of SpecQuiz
MaxQuizUpdates == 8
\* inbound updates handled before two handlers run at once in one behaviour of SpecRace
MaxRaceUpdates == 5
\* inbound updates and restarts in one behaviour of SpecRestart
MaxRestartUpdates == 4
\* inbound updates handled in one behaviour of SpecAdmin
MaxAdminUpdates == 4
\* AddReview calls started in one behaviour of SpecAdd
MaxAdds == 3

----------------------------------------------------------------------------
(* Program constants *)

StepNone == 0
StepChooseType == 1
StepEnterName == 2
StepChooseScore == 3
StepEnterReview == 4
StepConfirm == 5

\* len(text) < 10 and len(text) > 1000 in HandleRateText
MinReviewLen == 10
MaxReviewLen == 1000

\* MessageID of a session awaiting a search query
SearchMode == -1

\* time.Second, in milliseconds
Second == 1000

\* the steps of the clock, in milliseconds
TickSteps == {Second \div 2, (Second * 6) \div 10}

\* the chat configured as ADMIN_CHAT_ID; a private chat has its user's ID
AdminChatID == -100

UserIDs == {1, 2}
\* the members of the admin chat, who see the approve / reject / block buttons
AdminMembers == {2}

ChatPrivate == "private"
ChatGroup == "group"
\* the group chat the bot moderates
GroupChatID == AdminChatID - 100
\* c.Chat().ID: a private chat has the ID of its user
ChatOf(u, chatType) == IF chatType = ChatPrivate THEN u ELSE GroupChatID

----------------------------------------------------------------------------
(* Strings *)

UpperLetters == <<"A","B","C","D","E","F","G","H","I","J","K","L","M",
                  "N","O","P","Q","R","S","T","U","V","W","X","Y","Z">>
LowerLetters == <<"a","b","c","d","e","f","g","h","i","j","k","l","m",
                  "n","o","p","q","r","s","t","u","v","w","x","y","z">>
\* the accented letters of the name pattern (upper case, then lower case)
UpperAccented == <<"U+0104","U+0106","U+0118","U+0141","U+0143","U+00D3","U+015A","U+0179","U+017B">>
LowerAccented == <<"U+0105","U+0107","U+0119","U+0142","U+0144","U+00F3","U+015B","U+017A","U+017C">>
\* a Cyrillic letter: two bytes in UTF-8, not in the name pattern
Cyrillic == {"U+044F"}
Digits == <<"0","1","2","3","4","5","6","7","8","9">>

Range(s) == {s[i] : i \in DOMAIN s}

\* unicode.IsSpace, as used by strings.TrimSpace and strings.Fields
IsSpace(c) == c \in {" ", "\t", "\n", "\r"}

\* the character class [A-Za-z...] of nameRegex
IsNameLetter(c) ==
    c \in Range(UpperLetters) \cup Range(LowerLetters)
          \cup Range(UpperAccented) \cup Range(LowerAccented)

\* the number of bytes of a character in UTF-8: Go's len() counts bytes
ByteWidth(c) ==
    IF c \in Range(UpperAccented) \cup Range(LowerAccented) \cup Cyrillic THEN 2 ELSE 1

RECURSIVE ByteLen(_)
ByteLen(s) == IF s = <<>> THEN 0 ELSE ByteWidth(Head(s)) + ByteLen(Tail(s))

RECURSIVE TrimLeft(_)
TrimLeft(s) == IF s # <<>> /\ IsSpace(Head(s)) THEN TrimLeft(Tail(s)) ELSE s

RECURSIVE TrimRight(_)
TrimRight(s) ==
    IF s # <<>> /\ IsSpace(s[Len(s)]) THEN TrimRight(SubSeq(s, 1, Len(s) - 1)) ELSE s

TrimSpace(s) == TrimRight(TrimLeft(s))

ToLowerChar(c) ==
    IF \E i \in DOMAIN UpperLetters : UpperLetters[i] = c
    THEN LowerLetters[CHOOSE i \in DOMAIN UpperLetters : UpperLetters[i] = c]
    ELSE IF \E i \in DOMAIN UpperAccented : UpperAccented[i] = c
    THEN LowerAccented[CHOOSE i \in DOMAIN UpperAccented : UpperAccented[i] = c]
    ELSE c

ToLower(s) == [i \in DOMAIN s |-> ToLowerChar(s[i])]

\* strings.Contains
Contains(s, sub) ==
    \E i \in 0..(Len(s) - Len(sub)) : SubSeq(s, i + 1, i + Len(sub)) = sub

\* nameRegex.MatchString: ^[letters]+\s+[letters]+$
MatchName(text) ==
    \E i \in 1..Len(text) : \E j \in (i + 1)..(Len(text) - 1) :
        /\ \A k \in 1..i : IsNameLetter(text[k])
        /\ \A k \in (i + 1)..j : text[k] \in {" ", "\t", "\n", "\r"}
        /\ \A k \in (j + 1)..Len(text) : IsNameLetter(text[k])

\* the longest prefix of s made of decimal digits
RECURSIVE DigitPrefix(_)
DigitPrefix(s) ==
    IF s # <<>> /\ Head(s) \in Range(Digits)
    THEN <<Head(s)>> \o DigitPrefix(Tail(s)) ELSE <<>>

DigitValue(c) == (CHOOSE i \in DOMAIN Digits : Digits[i] = c) - 1

RECURSIVE Decimal(_)
Decimal(s) ==
    IF s = <<>> THEN 0 ELSE 10 * Decimal(SubSeq(s, 1, Len(s) - 1)) + DigitValue(s[Len(s)])

\* strconv.Atoi with its error dropped: the number when s is all digits, else 0
Atoi(s) == IF s # <<>> /\ DigitPrefix(s) = s THEN Decimal(s) ELSE 0

\* the blanks the %d verb skips before the number
RECURSIVE SkipSpace(_)
SkipSpace(s) == IF s # <<>> /\ Head(s) \in {" ", "\t"} THEN SkipSpace(Tail(s)) ELSE s

\* the characters the scanner accepts in a number: digits and underscores
RECURSIVE NumberPrefix(_)
NumberPrefix(s) ==
    IF s # <<>> /\ Head(s) \in Range(Digits) \cup {"_"}
    THEN <<Head(s)>> \o NumberPrefix(Tail(s)) ELSE <<>>

\* Sscanf that scans the first number anywhere in the text
SscanfAnywhere(s) ==
    IF \E k \in DOMAIN s : s[k] \in Range(Digits)
    THEN [n |-> 1,
          id |-> Decimal(DigitPrefix(SubSeq(s, CHOOSE k \in DOMAIN s :
                                                   /\ s[k] \in Range(Digits)
                                                   /\ \A j \in 1..(k - 1) : s[j] \notin Range(Digits),
                                               Len(s))))]
    ELSE [n |-> 0, id |-> 0]

\* fmt.Sscanf(data, "<prefix>%d", &id): n is the number of values scanned. The verb skips
\* blanks, takes a sign, then the digits and underscores that follow, which strconv.ParseInt
\* refuses when there is an underscore; what follows the number is ignored
Sscanf(s) ==
    LET t == SkipSpace(s)
        signed == t # <<>> /\ Head(t) \in {"+", "-"}
        num == NumberPrefix(IF signed THEN Tail(t) ELSE t)
    IN IF num = <<>> \/ "_" \in Range(num) THEN [n |-> 0, id |-> 0]
       ELSE [n |-> 1, id |-> IF signed /\ Head(t) = "-" THEN 0 - Decimal(num) ELSE Decimal(num)]

Rep(c, n) == [i \in 1..n |-> c]

----------------------------------------------------------------------------
(* RatingStore *)

\* NewRatingStore before load: empty, NextID 1
EmptyStore(file) ==
    [Reviews |-> <<>>, BlockedUsers |-> <<>>, NextID |-> 1, file |-> file]

\* the file before the first successful write
NoFile == [exists |-> FALSE, reviews |-> <<>>, blocked_users |-> <<>>, next_id |-> 0]

\* json.MarshalIndent(rs): the exported fields under their JSON names
MarshalReview(r) ==
    [id |-> r.ID, user_id |-> r.UserID, username |-> r.Username,
     is_anonymous |-> r.IsAnonymous, professor |-> r.Professor, score |-> r.Score,
     text |-> r.Text, status |-> r.Status, created_at |-> r.CreatedAt]

Marshal(rs) ==
    [exists |-> TRUE,
     reviews |-> [i \in DOMAIN rs.Reviews |-> MarshalReview(rs.Reviews[i])],
     blocked_users |-> rs.BlockedUsers,
     next_id |-> rs.NextID]

UnmarshalReview(d) ==
    [ID |-> d.id, UserID |-> d.user_id, Username |-> d.username,
     IsAnonymous |-> d.is_anonymous, Professor |-> d.professor, Score |-> d.score,
     Text |-> d.text, Status |-> d.status, CreatedAt |-> d.created_at]

\* save that leaves the blocked users out of the document
saveReviewsOnly(rs, w) ==
    IF w THEN [rs EXCEPT !.file = [Marshal(rs) EXCEPT !.blocked_users = rs.file.blocked_users]]
    ELSE rs

\* save: a full rewrite of the file; a failed write is logged and the file keeps its content
save(rs, w) == IF w THEN [rs EXCEPT !.file = Marshal(rs)] ELSE rs

\* load: nothing when the file cannot be read, else the document replaces the fields
load(rs) ==
    IF ~rs.file.exists THEN rs
    ELSE [rs EXCEPT !.Reviews = [i \in DOMAIN rs.file.reviews |-> UnmarshalReview(rs.file.reviews[i])],
                    !.BlockedUsers = rs.file.blocked_users,
                    !.NextID = rs.file.next_id]

NewRatingStore(file) == load(EmptyStore(file))

\* AddReview without rs.NextID++
AddReviewSameID(rs, r, t, w) ==
    LET withID == [r EXCEPT !.ID = rs.NextID, !.CreatedAt = t \div Second]
        added == [rs EXCEPT !.Reviews = Append(rs.Reviews, withID)]
    IN [rs |-> save(added, w), id |-> withID.ID]

\* AddReview that takes the review back when the write fails
AddReviewRollsBack(rs, r, t, w) ==
    LET withID == [r EXCEPT !.ID = rs.NextID, !.CreatedAt = t \div Second]
        added == [rs EXCEPT !.NextID = rs.NextID + 1, !.Reviews = Append(rs.Reviews, withID)]
    IN [rs |-> IF w THEN save(added, w) ELSE rs, id |-> withID.ID]

\* AddReview: the store after the call, and the ID it returns
AddReview(rs, r, t, w) ==
    LET withID == [r EXCEPT !.ID = rs.NextID, !.CreatedAt = t \div Second]
        added == [rs EXCEPT !.NextID = rs.NextID + 1, !.Reviews = Append(rs.Reviews, withID)]
    IN [rs |-> save(added, w), id |-> withID.ID]

\* the index of the first review with that ID, 0 when there is none
FirstIndex(rs, id) ==
    IF \E i \in DOMAIN rs.Reviews : rs.Reviews[i].ID = id
    THEN CHOOSE i \in DOMAIN rs.Reviews :
            /\ rs.Reviews[i].ID = id
            /\ \A j \in 1..(i - 1) : rs.Reviews[j].ID # id
    ELSE 0

\* GetReview: a pointer into rs.Reviews (its index), 0 for nil
GetReview(rs, id) == FirstIndex(rs, id)

\* UpdateReviewStatus that moves the review it updates to the end of the list
UpdateReviewStatusMoves(rs, id, status, w) ==
    LET i == FirstIndex(rs, id) IN
    IF i = 0 THEN [rs |-> rs, found |-> FALSE]
    ELSE [rs |-> save([rs EXCEPT !.Reviews =
                          SubSeq(rs.Reviews, 1, i - 1)
                          \o SubSeq(rs.Reviews, i + 1, Len(rs.Reviews))
                          \o <<[rs.Reviews[i] EXCEPT !.Status = status]>>], w),
          found |-> TRUE]

\* UpdateReviewStatus that writes the file for an unknown ID as well
UpdateReviewStatusSaves(rs, id, status, w) ==
    LET i == FirstIndex(rs, id) IN
    IF i = 0 THEN [rs |-> save(rs, w), found |-> FALSE]
    ELSE [rs |-> save([rs EXCEPT !.Reviews[i].Status = status], w), found |-> TRUE]

\* UpdateReviewStatus: the store after the call, and the boolean it returns
UpdateReviewStatus(rs, id, status, w) ==
    LET i == FirstIndex(rs, id) IN
    IF i = 0 THEN [rs |-> rs, found |-> FALSE]
    ELSE [rs |-> save([rs EXCEPT !.Reviews[i].Status = status], w), found |-> TRUE]

RECURSIVE ApprovedLoopDecided(_)
\* the loop of GetApprovedReviews keeping every review that is no longer pending
ApprovedLoopDecided(revs) ==
    IF revs = <<>> THEN <<>>
    ELSE (IF Head(revs).Status # "pending" THEN <<Head(revs)>> ELSE <<>>)
         \o ApprovedLoopDecided(Tail(revs))

RECURSIVE ApprovedLoop(_)
\* the loop of GetApprovedReviews over rs.Reviews
ApprovedLoop(revs) ==
    IF revs = <<>> THEN <<>>
    ELSE (IF Head(revs).Status = "approved" THEN <<Head(revs)>> ELSE <<>>)
         \o ApprovedLoop(Tail(revs))

GetApprovedReviews(rs) == ApprovedLoop(rs.Reviews)

RECURSIVE SearchLoopCased(_, _)
\* the loop of SearchReviews without strings.ToLower on the professor's name
SearchLoopCased(revs, query) ==
    IF revs = <<>> THEN <<>>
    ELSE (IF Head(revs).Status = "approved" /\ Contains(Head(revs).Professor, query)
          THEN <<Head(revs)>> ELSE <<>>)
         \o SearchLoopCased(Tail(revs), query)

RECURSIVE SearchLoop(_, _)
\* the loop of SearchReviews over rs.Reviews, query already lowercased
SearchLoop(revs, query) ==
    IF revs = <<>> THEN <<>>
    ELSE (IF Head(revs).Status = "approved" /\ Contains(ToLower(Head(revs).Professor), query)
          THEN <<Head(revs)>> ELSE <<>>)
         \o SearchLoop(Tail(revs), query)

SearchReviews(rs, query) == SearchLoop(rs.Reviews, ToLower(query))

IsBlocked(rs, userID) == \E i \in DOMAIN rs.BlockedUsers : rs.BlockedUsers[i] = userID

BlockUserAgain(rs, userID, w) ==
    save([rs EXCEPT !.BlockedUsers = Append(rs.BlockedUsers, userID)], w)

\* BlockUser
BlockUser(rs, userID, w) ==
    IF \E i \in DOMAIN rs.BlockedUsers : rs.BlockedUsers[i] = userID THEN rs
    ELSE save([rs EXCEPT !.BlockedUsers = Append(rs.BlockedUsers, userID)], w)

----------------------------------------------------------------------------
(* Callbacks and transport calls *)

\* a callback token: a known prefix (tag) and what follows it (arg)
Tok(tag) == [tag |-> tag, arg |-> <<>>]
TokArg(tag, arg) == [tag |-> tag, arg |-> arg]
EmptyTok == Tok("")

\* strings.HasPrefix(data, prefix)
HasPrefix(data, prefix) == data.tag = prefix

\* a button press: telebot fills Unique for a button made with Unique, Data for one made with Data
ButtonUnique(tok) == [Unique |-> tok, Data |-> EmptyTok]
ButtonData(tok) == [Unique |-> EmptyTok, Data |-> tok]
NoCallback == [Unique |-> EmptyTok, Data |-> EmptyTok]

\* data := c.Callback().Data; if data == "" { data = c.Callback().Unique }
CallbackID(cb) == IF cb.Data = EmptyTok THEN cb.Unique ELSE cb.Data

\* the decimal digits of a positive number below 100
Itoa(n) == IF n < 10 THEN <<Digits[n + 1]>> ELSE <<Digits[(n \div 10) + 1], Digits[(n % 10) + 1]>>

\* the buttons registered by RegisterHandlers with HandleRateCallback
rateButtons ==
    {Tok("rate_cancel"), Tok("rate_public"), Tok("rate_anonymous"), Tok("rate_submit")}
    \cup {TokArg("rate_score_", Itoa(n)) : n \in 1..5}

Send(chat, key, arg) == [call |-> "Send", chat |-> chat, key |-> key, arg |-> arg]
Edit(chat, key) == [call |-> "Edit", chat |-> chat, key |-> key, arg |-> <<>>]
Delete(chat) == [call |-> "Delete", chat |-> chat, key |-> "", arg |-> <<>>]
Respond(chat) == [call |-> "Respond", chat |-> chat, key |-> "", arg |-> <<>>]

\* c.Sender().Username and c.Sender().FirstName
SenderUsername(u) == IF u = 1 THEN "alice" ELSE ""
SenderFirstName(u) == IF u = 1 THEN "Alice" ELSE "Bob"

----------------------------------------------------------------------------
(* RatingHandler: sessions *)

\* &RatingSession{Step: StepNone}
NewSession ==
    [Step |-> StepNone, IsAnonymous |-> FALSE, Professor |-> <<>>, Score |-> 0,
     Text |-> <<>>, MessageID |-> 0]

\* getSession: the map after the call; the session returned is its entry for userID
getSession(ss, userID) ==
    IF userID \in DOMAIN ss THEN ss
    ELSE [v \in DOMAIN ss \cup {userID} |-> IF v = userID THEN NewSession ELSE ss[v]]

\* clearSession resetting the entry instead of deleting it
clearSessionReset(ss, userID) ==
    [v \in DOMAIN ss \cup {userID} |-> IF v = userID THEN NewSession ELSE ss[v]]

\* clearSession: delete(rh.sessions, userID)
clearSession(ss, userID) == [v \in DOMAIN ss \ {userID} |-> ss[v]]

hasActiveSession(ss, userID) == userID \in DOMAIN ss /\ ss[userID].Step # StepNone

\* what a handler leaves behind: the session map, the store, its transport calls,
\* whether it ended in a panic, and which consumer took a text message
Result(ss, rs, o) == [sessions |-> ss, rs |-> rs, out |-> o, panic |-> FALSE, by |-> ""]

----------------------------------------------------------------------------
(* RatingHandler: the rating dialogue *)

\* the message Send returns when it fails
NilMsg == 0
MessageIDs == {1}

\* HandleRate; chat is the private chat of u (whose ID is u) unless chatType says otherwise;
\* msg is what bot.Send returned
HandleRate(ss, rs, u, chatType, msg) ==
    IF chatType # ChatPrivate THEN Result(ss, rs, <<>>)
    ELSE IF IsBlocked(rs, u) THEN Result(ss, rs, <<Send(u, "Rating.Blocked", <<>>)>>)
    ELSE LET started == [getSession(ss, u) EXCEPT ![u].Step = StepChooseType]
             sent == <<Send(u, "Rating.ChooseType", <<>>)>>
         IN IF msg = NilMsg
            THEN [Result(started, rs, sent) EXCEPT !.panic = TRUE]
            ELSE Result([started EXCEPT ![u].MessageID = msg], rs, sent)

\* submitReview storing every review as a public one
submitReviewAsPublic(ss, rs, u, chat, session, t, io) ==
    LET username == IF SenderUsername(u) = "" THEN SenderFirstName(u) ELSE SenderUsername(u)
        review == [ID |-> 0, UserID |-> u, Username |-> username,
                   IsAnonymous |-> FALSE, Professor |-> session.Professor,
                   Score |-> session.Score, Text |-> session.Text,
                   Status |-> "pending", CreatedAt |-> 0]
        added == AddReview(rs, review, t, io.write)
    IN Result(clearSession(ss, u), added.rs,
              <<Edit(chat, "Rating.Submitted"),
                Send(AdminChatID, "Rating.NewReviewAdmin", <<added.id>>),
                Respond(chat)>>)

\* submitReview; chat is where the button was pressed
submitReview(ss, rs, u, chat, session, t, io) ==
    LET username == IF SenderUsername(u) = "" THEN SenderFirstName(u) ELSE SenderUsername(u)
        review == [ID |-> 0, UserID |-> u, Username |-> username,
                   IsAnonymous |-> session.IsAnonymous, Professor |-> session.Professor,
                   Score |-> session.Score, Text |-> session.Text,
                   Status |-> "pending", CreatedAt |-> 0]
        added == AddReview(rs, review, t, io.write)
    IN Result(clearSession(ss, u), added.rs,
              <<Edit(chat, "Rating.Submitted"),
                Send(AdminChatID, "Rating.NewReviewAdmin", <<added.id>>),
                Respond(chat)>>)

\* the outcomes of the calls a handler makes: write is whether os.WriteFile succeeds,
\* send whether the notification to the author is delivered, restrict whether the
\* platform applies bot.Restrict
AllOK == [write |-> TRUE, send |-> TRUE, restrict |-> TRUE]
SendFails == [AllOK EXCEPT !.send = FALSE]
WriteFails == [AllOK EXCEPT !.write = FALSE]

\* the notification of the author: an error of bot.Send is only logged
Notify(ok, chat, key, arg) ==
    [call |-> IF ok THEN "Send" ELSE "SendFailed", chat |-> chat, key |-> key, arg |-> arg]

\* handleAdminAction that takes the decision back when the author cannot be notified
handleAdminActionUndo(ss, rs, chat, data, status, io) ==
    LET scan == Sscanf(data.arg)
        review == GetReview(rs, scan.id)
    IN IF scan.n # 1 THEN Result(ss, rs, <<Respond(chat)>>)
       ELSE IF review = 0 THEN Result(ss, rs, <<Respond(chat)>>)
       ELSE Result(ss, IF io.send THEN UpdateReviewStatus(rs, scan.id, status, io.write).rs
                                  ELSE rs,
                   <<Edit(chat, IF status = "rejected" THEN "Rating.StatusRejected"
                                                      ELSE "Rating.StatusApproved"),
                     Notify(io.send, rs.Reviews[review].UserID,
                            IF status = "approved" THEN "Rating.ReviewApproved"
                                                   ELSE "Rating.ReviewRejected",
                            rs.Reviews[review].Professor),
                     Respond(chat)>>)

\* handleAdminAction: approve or reject
handleAdminAction(ss, rs, chat, data, status, io) ==
    LET scan == Sscanf(data.arg)
        review == GetReview(rs, scan.id)
    IN IF scan.n # 1 THEN Result(ss, rs, <<Respond(chat)>>)
       ELSE IF review = 0 THEN Result(ss, rs, <<Respond(chat)>>)
       ELSE Result(ss, UpdateReviewStatus(rs, scan.id, status, io.write).rs,
                   <<Edit(chat, IF status = "rejected" THEN "Rating.StatusRejected"
                                                      ELSE "Rating.StatusApproved"),
                     Notify(io.send, rs.Reviews[review].UserID,
                            IF status = "approved" THEN "Rating.ReviewApproved"
                                                   ELSE "Rating.ReviewRejected",
                            rs.Reviews[review].Professor),
                     Respond(chat)>>)

\* handleAdminBlock that reopens the review of the user it blocks
handleAdminBlockReopens(ss, rs, chat, data, io) ==
    LET scan == Sscanf(data.arg)
        review == GetReview(rs, scan.id)
    IN IF scan.n # 1 THEN Result(ss, rs, <<Respond(chat)>>)
       ELSE IF review = 0 THEN Result(ss, rs, <<Respond(chat)>>)
       ELSE Result(ss,
                   BlockUser(UpdateReviewStatus(rs, scan.id, "pending", io.write).rs,
                             rs.Reviews[review].UserID, io.write),
                   <<Edit(chat, "Rating.StatusBlocked"), Respond(chat)>>)

\* handleAdminBlock without the BlockUser call
handleAdminBlockRejectOnly(ss, rs, chat, data, io) ==
    LET scan == Sscanf(data.arg)
        review == GetReview(rs, scan.id)
    IN IF scan.n # 1 THEN Result(ss, rs, <<Respond(chat)>>)
       ELSE IF review = 0 THEN Result(ss, rs, <<Respond(chat)>>)
       ELSE Result(ss, UpdateReviewStatus(rs, scan.id, "rejected", io.write).rs,
                   <<Edit(chat, "Rating.StatusBlocked"), Respond(chat)>>)

\* handleAdminBlock
handleAdminBlock(ss, rs, chat, data, io) ==
    LET scan == Sscanf(data.arg)
        review == GetReview(rs, scan.id)
    IN IF scan.n # 1 THEN Result(ss, rs, <<Respond(chat)>>)
       ELSE IF review = 0 THEN Result(ss, rs, <<Respond(chat)>>)
       ELSE Result(ss,
                   BlockUser(UpdateReviewStatus(rs, scan.id, "rejected", io.write).rs,
                             rs.Reviews[review].UserID, io.write),
                   <<Edit(chat, "Rating.StatusBlocked"), Respond(chat)>>)

\* the steps of handleAdminBlock on a review it has found, in the order the code takes
\* them; each of the first two takes and releases the store's lock on its own
BlockStepsBlockFirst == <<"BlockUser", "UpdateReviewStatus", "Edit">>

BlockSteps == <<"UpdateReviewStatus", "BlockUser", "Edit">>

\* no handleAdminBlock call in progress
BlkIdle == [pc |-> 0, id |-> 0, author |-> 0, done |-> <<>>]

\* HandleRateCallback
HandleRateCallback(ss0, rs, u, chat, cb, t, io) ==
    LET ss == getSession(ss0, u)
        session == ss[u]
        data == CallbackID(cb)
    IN IF data = Tok("rate_cancel")
       THEN Result(clearSession(ss, u), rs, <<Edit(chat, "Rating.Cancelled"), Respond(chat)>>)
       ELSE IF data = Tok("rate_public")
       THEN Result([ss EXCEPT ![u].IsAnonymous = FALSE, ![u].Step = StepEnterName], rs,
                   <<Edit(chat, "Rating.EnterName"), Respond(chat)>>)
       ELSE IF data = Tok("rate_anonymous")
       THEN Result([ss EXCEPT ![u].IsAnonymous = TRUE, ![u].Step = StepEnterName], rs,
                   <<Edit(chat, "Rating.EnterName"), Respond(chat)>>)
       ELSE IF HasPrefix(data, "rate_score_")
       THEN Result([ss EXCEPT ![u].Score = Atoi(data.arg), ![u].Step = StepEnterReview], rs,
                   <<Edit(chat, "Rating.EnterReview"), Respond(chat)>>)
       ELSE IF data = Tok("rate_submit")
       THEN submitReview(ss, rs, u, chat, session, t, io)
       ELSE IF HasPrefix(data, "rate_approve_")
       THEN handleAdminAction(ss, rs, chat, data, "approved", io)
       ELSE IF HasPrefix(data, "rate_reject_")
       THEN handleAdminAction(ss, rs, chat, data, "rejected", io)
       ELSE IF HasPrefix(data, "rate_block_")
       THEN handleAdminBlock(ss, rs, chat, data, io)
       ELSE Result(ss, rs, <<Respond(chat)>>)

\* HandleRateText: by = "rating" when it returns true
HandleRateText(ss, rs, u, input) ==
    IF ~hasActiveSession(ss, u) THEN Result(ss, rs, <<>>)
    ELSE LET text == TrimSpace(input)
             step == ss[u].Step
             took(s, o) == [Result(s, rs, o) EXCEPT !.by = "rating"]
         IN IF step = StepEnterName
            THEN IF ~MatchName(text) THEN took(ss, <<Send(u, "Rating.InvalidName", <<>>)>>)
                 ELSE took([ss EXCEPT ![u].Professor = text, ![u].Step = StepChooseScore],
                           <<Send(u, "Rating.ChooseScore", <<>>)>>)
            ELSE IF step = StepEnterReview
            THEN IF ByteLen(text) < MinReviewLen
                 THEN took(ss, <<Send(u, "Rating.ReviewTooShort", <<>>)>>)
                 ELSE IF ByteLen(text) > MaxReviewLen
                 THEN took(ss, <<Send(u, "Rating.ReviewTooLong", <<>>)>>)
                 ELSE took([ss EXCEPT ![u].Text = text, ![u].Step = StepConfirm],
                           <<Send(u, "Rating.ConfirmReview", <<>>)>>)
            ELSE [Result(ss, rs, <<>>) EXCEPT !.panic = TRUE]

----------------------------------------------------------------------------
(* RatingHandler: the ratings list and the search prompt *)

PerPage == 5

RECURSIVE IDsOf(_)
IDsOf(revs) == IF revs = <<>> THEN <<>> ELSE <<Head(revs).ID>> \o IDsOf(Tail(revs))

\* showRatingsPage: one page of the approved (or found) reviews, sent to chat
showRatingsPage(rs, chat, page, search) ==
    LET reviews == IF search # <<>> THEN SearchReviews(rs, search) ELSE GetApprovedReviews(rs)
        totalPages == (Len(reviews) + PerPage - 1) \div PerPage
        low == IF page < 0 THEN 0 ELSE page
        pg == IF low >= totalPages THEN totalPages - 1 ELSE low
        first == pg * PerPage
        last == IF first + PerPage > Len(reviews) THEN Len(reviews) ELSE first + PerPage
    IN IF Len(reviews) = 0
       THEN <<Send(chat, IF search # <<>> THEN "Rating.NoSearchResults" ELSE "Rating.NoReviews", <<>>)>>
       ELSE <<Send(chat, "Rating.ListHeader", IDsOf(SubSeq(reviews, first + 1, last)))>>

\* HandleRatings
HandleRatings(ss, rs, u, chatType) ==
    IF chatType # ChatPrivate THEN Result(ss, rs, <<>>)
    ELSE Result(ss, rs, showRatingsPage(rs, u, 0, <<>>))

\* strings.SplitN(s, "_", 2): what precedes the first "_" and what follows it
RECURSIVE BeforeSep(_)
BeforeSep(s) == IF s = <<>> \/ Head(s) = "_" THEN <<>> ELSE <<Head(s)>> \o BeforeSep(Tail(s))
AfterSep(s) ==
    IF Len(BeforeSep(s)) >= Len(s) THEN <<>> ELSE SubSeq(s, Len(BeforeSep(s)) + 2, Len(s))

\* HandleRatingsCallback
HandleRatingsCallback(ss, rs, u, chat, cb) ==
    LET data == CallbackID(cb) IN
    IF data = Tok("ratings_search")
    THEN Result([v \in DOMAIN ss \cup {u} |->
                    IF v = u THEN [NewSession EXCEPT !.MessageID = SearchMode] ELSE ss[v]],
                rs, <<Edit(chat, "Rating.SearchPrompt"), Respond(chat)>>)
    ELSE IF HasPrefix(data, "ratings_page_")
    THEN Result(ss, rs,
                <<Delete(chat)>> \o
                showRatingsPage(rs, chat, Atoi(BeforeSep(data.arg)), AfterSep(data.arg)))
    ELSE Result(ss, rs, <<Respond(chat)>>)

\* HandleSearchText that leaves the session in place
HandleSearchTextKeeps(ss, rs, u, input) ==
    IF u \notin DOMAIN ss \/ ss[u].MessageID # SearchMode THEN Result(ss, rs, <<>>)
    ELSE [Result(ss, rs, showRatingsPage(rs, u, 0, TrimSpace(input)))
            EXCEPT !.by = "search"]

\* HandleSearchText: by = "search" when it returns true
HandleSearchText(ss, rs, u, input) ==
    IF u \notin DOMAIN ss \/ ss[u].MessageID # SearchMode THEN Result(ss, rs, <<>>)
    ELSE [Result(clearSession(ss, u), rs, showRatingsPage(rs, u, 0, TrimSpace(input)))
            EXCEPT !.by = "search"]

\* handleTextMessage: the rating dialogue first, then the search prompt, then the phrase filter
handleTextMessage(ss, rs, u, chatType, input) ==
    LET rated == HandleRateText(ss, rs, u, input)
        searched == HandleSearchText(ss, rs, u, input)
        filtered == [Result(ss, rs, <<>>) EXCEPT !.by = "filter"]
    IN IF chatType # ChatPrivate THEN filtered
       ELSE IF rated.panic \/ rated.by = "rating" THEN rated
       ELSE IF searched.by = "search" THEN searched
       ELSE filtered

\* the OnCallback handler of RegisterHandlers: which handler takes a press that no
\* registered button matches
OnCallback(cb) ==
    LET callbackID == CallbackID(cb) IN
    IF callbackID = EmptyTok THEN "none"
    ELSE IF \/ HasPrefix(callbackID, "rate_approve_")
            \/ HasPrefix(callbackID, "rate_reject_")
            \/ HasPrefix(callbackID, "rate_block_") THEN "HandleRateCallback"
    ELSE IF HasPrefix(callbackID, "ratings_page_") THEN "HandleRatingsCallback"
    ELSE "none"

\* telebot's routing of a press: the handler registered for its Unique, else OnCallback
Route(cb) ==
    IF cb.Unique \in rateButtons THEN "HandleRateCallback"
    ELSE IF cb.Unique = Tok("ratings_search") THEN "HandleRatingsCallback"
    ELSE OnCallback(cb)

\* the handler a press is routed to, applied
HandleCallback(ss, rs, u, chat, cb, t, io) ==
    IF Route(cb) = "HandleRateCallback" THEN HandleRateCallback(ss, rs, u, chat, cb, t, io)
    ELSE IF Route(cb) = "HandleRatingsCallback" THEN HandleRatingsCallback(ss, rs, u, chat, cb)
    ELSE Result(ss, rs, <<>>)

----------------------------------------------------------------------------
(* FeatureHandler.RateLimit around HandlePing *)

NoSender == 0

\* HandlePing: its transport calls
HandlePing(u, chatType) ==
    IF u = NoSender THEN <<>>
    ELSE IF chatType # ChatPrivate THEN <<Send(GroupChatID, "Ping.PrivateOnly", <<>>)>>
    ELSE <<Send(u, "Ping.Pong", <<>>), Edit(u, "Ping.PongWithMs")>>

\* RateLimit with one timestamp for all users
RateLimitShared(rl, u, chatType, t) ==
    LET stamped == [v \in DOMAIN rl \cup {u} |-> IF v = u THEN t ELSE rl[v]] IN
    IF u = NoSender THEN [rateLimit |-> rl, passed |-> TRUE, out |-> HandlePing(u, chatType)]
    ELSE IF \E v \in DOMAIN rl : t - rl[v] < Second
    THEN [rateLimit |-> stamped, passed |-> FALSE,
          out |-> <<Send(ChatOf(u, chatType), "RateLimit.TooFast", <<>>)>>]
    ELSE [rateLimit |-> stamped, passed |-> TRUE, out |-> HandlePing(u, chatType)]

\* RateLimit that keeps the timestamp of the last handled command when it drops one
RateLimitFixedWindow(rl, u, chatType, t) ==
    LET stamped == [v \in DOMAIN rl \cup {u} |-> IF v = u THEN t ELSE rl[v]] IN
    IF u = NoSender THEN [rateLimit |-> rl, passed |-> TRUE, out |-> HandlePing(u, chatType)]
    ELSE IF u \in DOMAIN rl /\ t - rl[u] < Second
    THEN [rateLimit |-> rl, passed |-> FALSE,
          out |-> <<Send(ChatOf(u, chatType), "RateLimit.TooFast", <<>>)>>]
    ELSE [rateLimit |-> stamped, passed |-> TRUE, out |-> HandlePing(u, chatType)]

\* RateLimit(handler): the map after the call, whether handler ran, the transport calls
RateLimit(rl, u, chatType, t) ==
    LET stamped == [v \in DOMAIN rl \cup {u} |-> IF v = u THEN t ELSE rl[v]] IN
    IF u = NoSender THEN [rateLimit |-> rl, passed |-> TRUE, out |-> HandlePing(u, chatType)]
    ELSE IF u \in DOMAIN rl /\ t - rl[u] < Second
    THEN [rateLimit |-> stamped, passed |-> FALSE,
          out |-> <<Send(ChatOf(u, chatType), "RateLimit.TooFast", <<>>)>>]
    ELSE [rateLimit |-> stamped, passed |-> TRUE, out |-> HandlePing(u, chatType)]

----------------------------------------------------------------------------
(* Blacklist (internal/bot/blacklist.go): the banned phrases *)

\* strings.Fields: the maximal runs of non-space characters, in order
RECURSIVE FieldsLoop(_, _, _, _)
FieldsLoop(s, i, cur, acc) ==
    IF i > Len(s) THEN (IF cur = <<>> THEN acc ELSE Append(acc, cur))
    ELSE IF IsSpace(s[i])
    THEN FieldsLoop(s, i + 1, <<>>, IF cur = <<>> THEN acc ELSE Append(acc, cur))
    ELSE FieldsLoop(s, i + 1, Append(cur, s[i]), acc)

Fields(s) == FieldsLoop(s, 1, <<>>, <<>>)

\* strings.Join
RECURSIVE Join(_, _)
Join(words, sep) ==
    IF words = <<>> THEN <<>>
    ELSE IF Len(words) = 1 THEN words[1]
    ELSE words[1] \o sep \o Join(Tail(words), sep)

toLowerSlice(words) == [i \in DOMAIN words |-> ToLower(words[i])]

\* the blacklist file before the first successful write
NoList == [exists |-> FALSE, phrases |-> <<>>]

\* Blacklist.save: an error of os.WriteFile is returned and dropped by the callers
BlacklistSave(b, w) ==
    IF w THEN [b EXCEPT !.file = [exists |-> TRUE, phrases |-> b.Phrases]] ELSE b

\* Blacklist.load
BlacklistLoad(b) == IF ~b.file.exists THEN b ELSE [b EXCEPT !.Phrases = b.file.phrases]

NewBlacklist(file) == BlacklistLoad([Phrases |-> <<>>, file |-> file])

AddPhrase(b, words, w) ==
    BlacklistSave([b EXCEPT !.Phrases = Append(b.Phrases, toLowerSlice(words))], w)

\* slices.DeleteFunc(phrases, Join(p, " ") == target)
RECURSIVE DeleteFunc(_, _)
DeleteFunc(phrases, target) ==
    IF phrases = <<>> THEN <<>>
    ELSE IF Join(Head(phrases), <<" ">>) = target THEN DeleteFunc(Tail(phrases), target)
    ELSE <<Head(phrases)>> \o DeleteFunc(Tail(phrases), target)

\* slices.DeleteFunc that stops after the first phrase it deletes
RECURSIVE DeleteFirst(_, _)
DeleteFirst(phrases, target) ==
    IF phrases = <<>> THEN <<>>
    ELSE IF Join(Head(phrases), <<" ">>) = target THEN Tail(phrases)
    ELSE <<Head(phrases)>> \o DeleteFirst(Tail(phrases), target)

\* RemovePhrase that deletes the first equal phrase only
RemovePhraseFirst(b, words, w) ==
    LET target == Join(toLowerSlice(words), <<" ">>)
        newList == DeleteFirst(b.Phrases, target)
    IN IF Len(newList) < Len(b.Phrases)
       THEN [b |-> BlacklistSave([b EXCEPT !.Phrases = newList], w), ok |-> TRUE]
       ELSE [b |-> b, ok |-> FALSE]

\* RemovePhrase: the blacklist after the call, and the boolean it returns
RemovePhrase(b, words, w) ==
    LET target == Join(toLowerSlice(words), <<" ">>)
        newList == DeleteFunc(b.Phrases, target)
    IN IF Len(newList) < Len(b.Phrases)
       THEN [b |-> BlacklistSave([b EXCEPT !.Phrases = newList], w), ok |-> TRUE]
       ELSE [b |-> b, ok |-> FALSE]

\* the func CheckMessage passes to slices.ContainsFunc
PhraseMatches(phrase, text, words) ==
    IF Len(phrase) = 1 THEN \E k \in DOMAIN words : words[k] = phrase[1]
    ELSE \A k \in DOMAIN phrase : Contains(text, phrase[k])

\* CheckMessage in which a phrase of one token is searched like the others
CheckMessageSubstring(b, msg) ==
    LET text == ToLower(msg)
    IN \E k \in DOMAIN b.Phrases :
          \A j \in DOMAIN b.Phrases[k] : Contains(text, b.Phrases[k][j])

CheckMessage(b, msg) ==
    LET text == ToLower(msg)
        words == Fields(text)
    IN \E k \in DOMAIN b.Phrases : PhraseMatches(b.Phrases[k], text, words)

\* no call on the blacklist yet
NoFilterCall == [op |-> "none", words |-> <<>>, ok |-> FALSE]

----------------------------------------------------------------------------
(* Verification: the UserState, and the join, leave, student, guest and quiz handlers *)

\* core.NewState
NewState == [IsNewbie |-> {}, UserCorrect |-> <<>>]

SetNewbie(st, u) == [st EXCEPT !.IsNewbie = @ \cup {u}]
ClearNewbie(st, u) == [st EXCEPT !.IsNewbie = @ \ {u}]
IsNewbie(st, u) == u \in st.IsNewbie

\* InitUser: the counter of correct answers starts at 0, and the user is a newbie
InitUser(st, u) ==
    [IsNewbie |-> st.IsNewbie \cup {u},
     UserCorrect |-> [v \in DOMAIN st.UserCorrect \cup {u} |->
                         IF v = u THEN 0 ELSE st.UserCorrect[v]]]

\* IncCorrect: nothing for a user without a counter
IncCorrect(st, u) ==
    IF u \in DOMAIN st.UserCorrect THEN [st EXCEPT !.UserCorrect[u] = @ + 1] ELSE st

TotalCorrect(st, u) == IF u \in DOMAIN st.UserCorrect THEN st.UserCorrect[u] ELSE 0

\* Reset: the counter is dropped, the newbie flag is left alone
Reset(st, u) ==
    [st EXCEPT !.UserCorrect = [v \in DOMAIN st.UserCorrect \ {u} |-> st.UserCorrect[v]]]

\* DefaultQuiz
DefaultQuiz ==
    <<[Text |-> "Quiz.Question1", Buttons |-> <<"q1_usos", "q1_edupl", "q1_muci">>,
       Answer |-> "q1_usos"],
      [Text |-> "Quiz.Question2", Buttons |-> <<"q2_gmail", "q2_outlook", "q2_yahoo">>,
       Answer |-> "q2_outlook"],
      [Text |-> "Quiz.Question3",
       Buttons |-> <<"q3_niepodleglosci", "q3_chinska", "q3_roz">>,
       Answer |-> "q3_niepodleglosci"]>>

\* the outcomes of bot.Restrict: TRUE when the platform applies the rights
RestrictOutcomes == {TRUE, FALSE}

\* SetUserRestriction: an error of bot.Restrict is only logged
SetUserRestriction(rs, u, allowAll, ok) ==
    IF ~ok THEN rs ELSE IF allowAll THEN rs \ {u} ELSE rs \cup {u}

\* SendOrEdit: Send without a message, Edit with one
SendOrEdit(chat, msg, key) == IF msg = NilMsg THEN Send(chat, key, <<>>) ELSE Edit(chat, key)

\* adminHandler.LogToAdmin
LogToAdmin(key) == Send(AdminChatID, key, <<>>)

\* what a handler of the FeatureHandler leaves behind
Verified(st, rs, o) == [state |-> st, restricted |-> rs, out |-> o]

\* HandleUserJoined: its loop over the joined users, from the i-th on
RECURSIVE JoinedLoop(_, _, _)
JoinedLoop(res, users, ok) ==
    IF users = <<>> THEN res
    ELSE LET u == Head(users) IN
         JoinedLoop(Verified(InitUser(SetNewbie(res.state, u), u),
                             SetUserRestriction(res.restricted, u, FALSE, ok),
                             res.out \o <<Send(GroupChatID, "Welcome.Greeting", <<u>>),
                                          LogToAdmin("Log.Joined")>>),
                    Tail(users), ok)

HandleUserJoined(st, rs, users, ok) == JoinedLoop(Verified(st, rs, <<>>), users, ok)

\* HandleUserLeft
HandleUserLeft(st, rs, left) ==
    IF left = NoSender THEN Verified(st, rs, <<>>)
    ELSE Verified(ClearNewbie(st, left), rs, <<LogToAdmin("Log.Left")>>)

\* OnlyNewbies, when it does not call the handler it wraps
NotYourButton(st, rs, u) ==
    Verified(st, rs, <<[Respond(GroupChatID) EXCEPT !.key = "Buttons.NotYourButton"]>>)

\* HandleStudent
HandleStudent(st, rs, u) ==
    Verified(InitUser(st, u), rs, <<SendOrEdit(GroupChatID, 1, DefaultQuiz[1].Text)>>)

\* HandleGuest
HandleGuest(st, rs, u, ok) ==
    Verified(ClearNewbie(st, u), SetUserRestriction(rs, u, TRUE, ok),
             <<SendOrEdit(GroupChatID, 1, "Guest.CanWrite"), LogToAdmin("Log.Guest")>>)

\* CreateQuizHandler without the call of Reset
CreateQuizHandlerKeepsCount(st, rs, u, i, btn, ok) ==
    LET st1 == IF btn = DefaultQuiz[i].Answer THEN IncCorrect(st, u) ELSE st
        totalCorrect == TotalCorrect(st1, u)
    IN IF i < Len(DefaultQuiz)
       THEN Verified(st1, rs, <<SendOrEdit(GroupChatID, 1, DefaultQuiz[i + 1].Text)>>)
       ELSE IF totalCorrect >= 2
       THEN Verified(ClearNewbie(st1, u), SetUserRestriction(rs, u, TRUE, ok),
                     <<SendOrEdit(GroupChatID, 1, "Quiz.VerificationPassed"),
                       LogToAdmin("Log.Passed")>>)
       ELSE Verified(st1, rs,
                     <<SendOrEdit(GroupChatID, 1, "Quiz.VerificationFailed"),
                       LogToAdmin("Log.Failed")>>)

\* CreateQuizHandler that lets the user pass only when all answers were correct
CreateQuizHandlerAllCorrect(st, rs, u, i, btn, ok) ==
    LET st1 == IF btn = DefaultQuiz[i].Answer THEN IncCorrect(st, u) ELSE st
        totalCorrect == TotalCorrect(st1, u)
    IN IF i < Len(DefaultQuiz)
       THEN Verified(st1, rs, <<SendOrEdit(GroupChatID, 1, DefaultQuiz[i + 1].Text)>>)
       ELSE IF totalCorrect >= Len(DefaultQuiz)
       THEN Verified(Reset(ClearNewbie(st1, u), u), SetUserRestriction(rs, u, TRUE, ok),
                     <<SendOrEdit(GroupChatID, 1, "Quiz.VerificationPassed"),
                       LogToAdmin("Log.Passed")>>)
       ELSE Verified(Reset(st1, u), rs,
                     <<SendOrEdit(GroupChatID, 1, "Quiz.VerificationFailed"),
                       LogToAdmin("Log.Failed")>>)

\* CreateQuizHandler that clears the newbie flag however the quiz ends
CreateQuizHandlerClearsAlways(st, rs, u, i, btn, ok) ==
    LET st1 == IF btn = DefaultQuiz[i].Answer THEN IncCorrect(st, u) ELSE st
        totalCorrect == TotalCorrect(st1, u)
    IN IF i < Len(DefaultQuiz)
       THEN Verified(st1, rs, <<SendOrEdit(GroupChatID, 1, DefaultQuiz[i + 1].Text)>>)
       ELSE IF totalCorrect >= 2
       THEN Verified(Reset(ClearNewbie(st1, u), u), SetUserRestriction(rs, u, TRUE, ok),
                     <<SendOrEdit(GroupChatID, 1, "Quiz.VerificationPassed"),
                       LogToAdmin("Log.Passed")>>)
       ELSE Verified(Reset(ClearNewbie(st1, u), u), rs,
                     <<SendOrEdit(GroupChatID, 1, "Quiz.VerificationFailed"),
                       LogToAdmin("Log.Failed")>>)

\* the handler CreateQuizHandler builds for button btn of the i-th question
CreateQuizHandler(st, rs, u, i, btn, ok) ==
    LET st1 == IF btn = DefaultQuiz[i].Answer THEN IncCorrect(st, u) ELSE st
        totalCorrect == TotalCorrect(st1, u)
    IN IF i < Len(DefaultQuiz)
       THEN Verified(st1, rs, <<SendOrEdit(GroupChatID, 1, DefaultQuiz[i + 1].Text)>>)
       ELSE IF totalCorrect >= 2
       THEN Verified(Reset(ClearNewbie(st1, u), u), SetUserRestriction(rs, u, TRUE, ok),
                     <<SendOrEdit(GroupChatID, 1, "Quiz.VerificationPassed"),
                       LogToAdmin("Log.Passed")>>)
       ELSE Verified(Reset(st1, u), rs,
                     <<SendOrEdit(GroupChatID, 1, "Quiz.VerificationFailed"),
                       LogToAdmin("Log.Failed")>>)

\* OnlyNewbies that lets every sender through
OnlyNewbiesAnySender(st, rs, u, res) ==
    IF u = NoSender THEN NotYourButton(st, rs, u) ELSE res

\* OnlyNewbies around a handler's result
OnlyNewbies(st, rs, u, res) ==
    IF u = NoSender \/ ~IsNewbie(st, u) THEN NotYourButton(st, rs, u) ELSE res

\* the quiz of a user as it is followed: stage 0 when no quiz is followed, k in 1..3 when
\* the k-th question is the next to answer, 4 when the third has been answered
\* right holds the questions the user has answered correctly since the counter was set up
QuizIdle == [stage |-> 0, answers |-> <<>>, passed |-> FALSE, right |-> {}]

\* the question a button belongs to, and whether it is the right answer
QuestionOf(btn) ==
    CHOOSE i \in DOMAIN DefaultQuiz : \E k \in DOMAIN DefaultQuiz[i].Buttons :
        DefaultQuiz[i].Buttons[k] = btn

\* the stage and the answers of the quiz of user v after update ev
TrackStage(q, v, ev, st, res) ==
    IF ev.kind = "join" /\ v \in Range(ev.users) THEN QuizIdle
    ELSE IF ev.kind = "left" /\ ev.user = v THEN QuizIdle
    ELSE IF ev.user # v \/ ~IsNewbie(st, v) THEN q
    ELSE IF ev.kind = "guest" THEN QuizIdle
    ELSE IF ev.kind = "student" THEN [stage |-> 1, answers |-> <<>>, passed |-> FALSE]
    ELSE IF ev.kind = "quiz" /\ q.stage = QuestionOf(ev.cb.Unique.tag)
    THEN [stage |-> q.stage + 1,
          answers |-> Append(q.answers,
                             ev.cb.Unique.tag = DefaultQuiz[q.stage].Answer),
          passed |-> q.stage = Len(DefaultQuiz) /\ ~IsNewbie(res.state, v)]
    ELSE IF ev.kind = "quiz" THEN QuizIdle
    ELSE q

\* the questions user v has answered correctly in the quiz under way, after update ev
\* handled in state st: the quiz is under way from InitUser to Reset
TrackRight(q, v, ev, st) ==
    IF ev.kind = "join" /\ v \in Range(ev.users) THEN {}
    ELSE IF ev.kind = "left" /\ ev.user = v THEN {}
    ELSE IF ev.user # v \/ ~IsNewbie(st, v) THEN q.right
    ELSE IF ev.kind \in {"guest", "student"} THEN {}
    ELSE IF ev.kind = "quiz"
    THEN LET i == QuestionOf(ev.cb.Unique.tag) IN
         IF i = Len(DefaultQuiz) \/ v \notin DOMAIN st.UserCorrect THEN {}
         ELSE IF ev.cb.Unique.tag = DefaultQuiz[i].Answer THEN q.right \cup {i}
         ELSE q.right
    ELSE q.right

\* the quiz of user v after update ev, handled in state st with result res
TrackQuiz(q, v, ev, st, res) ==
    LET t == TrackStage(q, v, ev, st, res)
    IN [stage |-> t.stage, answers |-> t.answers, passed |-> t.passed,
        right |-> TrackRight(q, v, ev, st)]

----------------------------------------------------------------------------
(* Inputs *)

ChatTypes == {ChatPrivate, ChatGroup}

NameJane == <<"J", "a", "n", "e", " ", "D", "o", "e">>
\* the text messages users send: a padded name, a ten-letter word, a short word,
\* and five Cyrillic letters (ten bytes)
TextInputs ==
    { <<" ">> \o NameJane \o <<" ">>,
      Rep("g", 10),
      <<"b", "a", "d">>,
      Rep("U+044F", 5) }
\* the same without the Cyrillic text
AsciiInputs == { <<" ">> \o NameJane \o <<" ">>, Rep("g", 10), <<"b", "a", "d">> }

ScoreButton(n) == ButtonUnique(TokArg("rate_score_", Itoa(n)))
TypeButton(anon) == ButtonUnique(Tok(IF anon THEN "rate_anonymous" ELSE "rate_public"))
SubmitButton == ButtonUnique(Tok("rate_submit"))
CancelButton == ButtonUnique(Tok("rate_cancel"))
SearchButton == ButtonUnique(Tok("ratings_search"))

\* the presses of the buttons of the rating dialogue
RatePresses == {ButtonUnique(tok) : tok \in rateButtons}

\* every user presses every button of the rating dialogue
AllPresses == [u \in UserIDs |-> RatePresses]
\* user 1 presses every button; user 2, who gets in the way, presses submit and cancel
TripPresses ==
    [u \in UserIDs |-> IF u = 1 THEN RatePresses ELSE {SubmitButton, CancelButton}]

\* the review IDs carried by the admin buttons that are pressed
AdminIDs == 1..2
\* the presses of the approve / reject / block buttons sent to the admin chat
AdminPresses ==
    {ButtonData(TokArg(tag, Itoa(id))) :
        tag \in {"rate_approve_", "rate_reject_", "rate_block_"}, id \in AdminIDs}

\* the press of a "next page" button of the ratings list
PagePresses == {ButtonUnique(TokArg("ratings_page_", <<"1", "_">>))}

----------------------------------------------------------------------------
(* The canonical dialogue, followed per user:                               *)
(*   /rate (no dialogue in progress), type, valid name, score 1..5, valid   *)
(*   text, submit                                                            *)

FlowIdle ==
    [stage |-> 0, anon |-> FALSE, name |-> <<>>, score |-> 0, text |-> <<>>, before |-> 0]

\* a review text whose length is within 10..1000 counted in characters and in bytes
ValidReviewText(t) ==
    /\ Len(t) >= MinReviewLen /\ Len(t) <= MaxReviewLen
    /\ ByteLen(t) >= MinReviewLen /\ ByteLen(t) <= MaxReviewLen

\* the stage of user v after update ev, handled from session map ss and store rs
TrackUser(f, v, ev, ss, rs) ==
    IF ev.user # v THEN (IF f.stage = 6 THEN FlowIdle ELSE f)
    ELSE IF ev.kind = "/rate" /\ ev.chat = ChatPrivate /\ ~hasActiveSession(ss, v) /\ ~ev.panic
    THEN [FlowIdle EXCEPT !.stage = 1]
    ELSE IF f.stage = 1 /\ ev.kind = "callback" /\ ev.cb \in {TypeButton(TRUE), TypeButton(FALSE)}
    THEN [f EXCEPT !.stage = 2, !.anon = (ev.cb = TypeButton(TRUE))]
    ELSE IF f.stage = 2 /\ ev.kind = "text" /\ ev.chat = ChatPrivate /\ MatchName(TrimSpace(ev.text))
    THEN [f EXCEPT !.stage = 3, !.name = TrimSpace(ev.text)]
    ELSE IF f.stage = 3 /\ ev.kind = "callback" /\ \E n \in 1..5 : ev.cb = ScoreButton(n)
    THEN [f EXCEPT !.stage = 4, !.score = CHOOSE n \in 1..5 : ev.cb = ScoreButton(n)]
    ELSE IF f.stage = 4 /\ ev.kind = "text" /\ ev.chat = ChatPrivate
            /\ ValidReviewText(TrimSpace(ev.text))
    THEN [f EXCEPT !.stage = 5, !.text = TrimSpace(ev.text)]
    ELSE IF f.stage = 5 /\ ev.kind = "callback" /\ ev.cb = SubmitButton
    THEN [f EXCEPT !.stage = 6, !.before = Len(rs.Reviews)]
    ELSE FlowIdle

----------------------------------------------------------------------------
(* Actions *)

\* the step of the session of u, StepNone when u has none
StepOf(ss, u) == IF u \in DOMAIN ss THEN ss[u].Step ELSE StepNone

\* an update as the monitor records it: what arrived, the step its sender was at when it
\* arrived, whether its handler panicked, which consumer took it
Update(kind, u, chatType, cb, text, res) ==
    [kind |-> kind, user |-> u, chat |-> chatType, cb |-> cb, text |-> text,
     step |-> StepOf(sessions, u), panic |-> res.panic, by |-> res.by,
     users |-> <<>>, newbie |-> IsNewbie(state, u), io |-> AllOK]

NoUpdate ==
    [kind |-> "none", user |-> NoSender, chat |-> ChatPrivate, cb |-> NoCallback,
     text |-> <<>>, step |-> StepNone, panic |-> FALSE, by |-> "",
     users |-> <<>>, newbie |-> FALSE, io |-> AllOK]

\* how a specification observes its updates: Watch records the update and the
\* transport calls of its handler, Track follows the canonical dialogue
Watch == [watch |-> TRUE, track |-> FALSE, max |-> MaxUpdates]
Track == [watch |-> FALSE, track |-> TRUE, max |-> MaxTripUpdates]

\* one inbound update ev handled by the rating handler, with result res
Handled(ev, res, obs) ==
    /\ nupd < obs.max
    /\ nupd' = nupd + 1
    /\ sessions' = res.sessions
    /\ store' = res.rs
    /\ out' = IF obs.watch THEN res.out ELSE <<>>
    /\ upd' = IF obs.watch THEN ev ELSE NoUpdate
    /\ flow' = IF obs.track
               THEN [v \in UserIDs |-> TrackUser(flow[v], v, ev, sessions, store)]
               ELSE flow
    /\ UNCHANGED <<adders, rateLimit, now, ret, cmds, blk, blacklist, chk, state, restricted, quiz, race, exec>>

\* "/rate"
RateCommand(chats, msgs, obs) ==
    \E u \in UserIDs, chatType \in chats, msg \in msgs :
        LET res == HandleRate(sessions, store, u, chatType, msg)
        IN Handled(Update("/rate", u, chatType, NoCallback, <<>>, res), res, obs)

\* a press of a button of the rating dialogue, in the private chat
RateButton(presses, obs) ==
    \E u \in UserIDs : \E cb \in presses[u] :
        LET res == HandleCallback(sessions, store, u, u, cb, now, AllOK)
        IN Handled(Update("callback", u, ChatPrivate, cb, <<>>, res), res, obs)

\* a press of an approve / reject / block button, in the admin chat
AdminButton(obs) ==
    \E a \in AdminMembers, cb \in AdminPresses, io \in {AllOK, SendFails} :
        LET res == HandleCallback(sessions, store, a, AdminChatID, cb, now, io)
        IN Handled([Update("callback", a, ChatGroup, cb, <<>>, res) EXCEPT !.io = io],
                   res, obs)

\* a plain text message
TextMessage(chats, texts, obs) ==
    \E u \in UserIDs, chatType \in chats, text \in texts :
        LET res == handleTextMessage(sessions, store, u, chatType, text)
        IN Handled(Update("text", u, chatType, NoCallback, text, res), res, obs)

\* "/ratings"
RatingsCommand(obs) ==
    \E u \in UserIDs, chatType \in ChatTypes :
        LET res == HandleRatings(sessions, store, u, chatType)
        IN Handled(Update("/ratings", u, chatType, NoCallback, <<>>, res), res, obs)

\* a press of the search or of a page button of the ratings list
RatingsButton(obs) ==
    \E u \in UserIDs, cb \in {SearchButton} \cup PagePresses :
        LET res == HandleCallback(sessions, store, u, u, cb, now, AllOK)
        IN Handled(Update("callback", u, ChatPrivate, cb, <<>>, res), res, obs)

\* the goroutines of the handlers that call AddReview at once
Goroutines == {1, 2}

\* Review{}: the zero value
NoReview ==
    [ID |-> 0, UserID |-> 0, Username |-> "", IsAnonymous |-> FALSE, Professor |-> <<>>,
     Score |-> 0, Text |-> <<>>, Status |-> "", CreatedAt |-> 0]

\* no AddReview call under way: the lock is free
AddersIdle ==
    [mu |-> 0, pc |-> [g \in Goroutines |-> "idle"],
     r |-> [g \in Goroutines |-> NoReview], started |-> 0, done |-> 0]

\* no handler followed
ExecIdle == [events |-> <<>>, pc |-> 0, held |-> {}]

\* no two handlers running at once
RaceIdle ==
    [phase |-> "idle", heap |-> <<>>, smap |-> <<>>, h |-> <<>>,
     ss0 |-> <<>>, rs0 |-> EmptyStore(NoFile)]

NoCall == [op |-> "none", id |-> 0, val |-> 0, hi |-> 0, stale |-> FALSE]

Init ==
    /\ store = NewRatingStore(NoFile)
    /\ sessions = <<>>
    /\ rateLimit = <<>>
    /\ now = 0
    /\ upd = NoUpdate
    /\ out = <<>>
    /\ flow = [v \in UserIDs |-> FlowIdle]
    /\ ret = NoCall
    /\ cmds = [v \in UserIDs |-> <<>>]
    /\ blk = BlkIdle
    /\ blacklist = NewBlacklist(NoList)
    /\ chk = NoFilterCall
    /\ state = NewState
    /\ restricted = {}
    /\ quiz = [v \in UserIDs |-> QuizIdle]
    /\ nupd = 0
    /\ race = RaceIdle
    /\ exec = ExecIdle
    /\ adders = AddersIdle

Next ==
    \/ RateCommand(ChatTypes, MessageIDs \cup {NilMsg}, Watch)
    \/ RateButton(AllPresses, Watch)
    \/ AdminButton(Watch)
    \/ TextMessage(ChatTypes, TextInputs, Watch)
    \/ RatingsCommand(Watch)
    \/ RatingsButton(Watch)

\* the rating dialogue, the moderation decisions and the ratings list, every update observed
Spec == Init /\ [][Next]_vars

NextTrip ==
    \/ RateCommand({ChatPrivate}, MessageIDs, Track)
    \/ RateButton(TripPresses, Track)
    \/ TextMessage({ChatPrivate}, AsciiInputs, Track)

\* the rating dialogue of two users in their private chats, the canonical dialogue followed
SpecTrip == Init /\ [][NextTrip]_vars

----------------------------------------------------------------------------
(* The RatingStore alone: its calls in any order, writes that may fail, restarts *)

NameSmith == <<"A", "l", " ", "S", "m", "i", "t", "h">>
NameSmithson == <<"B", "o", " ", "S", "M", "I", "T", "H", "s", "o", "n">>

\* the reviews submitReview passes to AddReview
ReviewInputs ==
    { [ID |-> 0, UserID |-> 1, Username |-> "alice", IsAnonymous |-> FALSE,
       Professor |-> NameSmith, Score |-> 4, Text |-> Rep("g", 10),
       Status |-> "pending", CreatedAt |-> 0],
      [ID |-> 0, UserID |-> 2, Username |-> "Bob", IsAnonymous |-> TRUE,
       Professor |-> NameSmithson, Score |-> 1, Text |-> Rep("g", 10),
       Status |-> "pending", CreatedAt |-> 0],
      [ID |-> 0, UserID |-> 1, Username |-> "alice", IsAnonymous |-> FALSE,
       Professor |-> NameJane, Score |-> 5, Text |-> Rep("g", 10),
       Status |-> "pending", CreatedAt |-> 0] }

\* the statuses handleAdminAction and handleAdminBlock pass to UpdateReviewStatus
StatusInputs == {"approved", "rejected"}

\* the outcomes of os.WriteFile: TRUE when the write succeeds
WriteOutcomes == {TRUE, FALSE}

\* one call on the store
Called(rs, op, id, val) ==
    /\ nupd < MaxStoreOps
    /\ nupd' = nupd + 1
    /\ store' = rs
    /\ ret' = [op |-> op, id |-> id, val |-> val,
               hi |-> IF ret.op = "AddReview" /\ ret.val > ret.hi THEN ret.val ELSE ret.hi,
               \* a restart has read a document older than the memory it replaced
               stale |-> ret.stale \/ (op = "load" /\ rs.NextID < store.NextID)]
    /\ UNCHANGED <<adders, sessions, rateLimit, now, upd, out, flow, cmds, blk, blacklist, chk, state, restricted, quiz, race, exec>>

StoreAdd ==
    \E r \in ReviewInputs, w \in WriteOutcomes :
        LET res == AddReview(store, r, now, w) IN Called(res.rs, "AddReview", 0, res.id)

StoreUpdate ==
    \E id \in 1..3, status \in StatusInputs, w \in WriteOutcomes :
        LET res == UpdateReviewStatus(store, id, status, w)
        IN Called(res.rs, "UpdateReviewStatus", id, IF res.found THEN 1 ELSE 0)

\* BlockUser returns nothing: val records whether the user was blocked already
StoreBlock ==
    \E u \in UserIDs, w \in WriteOutcomes :
        Called(BlockUser(store, u, w), "BlockUser", u, IF IsBlocked(store, u) THEN 1 ELSE 0)

\* the process restarts: NewRatingStore reads the file again
StoreReload == Called(NewRatingStore(store.file), "load", 0, 0)

NextStore == StoreAdd \/ StoreUpdate \/ StoreBlock \/ StoreReload

SpecStore == Init /\ [][NextStore]_vars

----------------------------------------------------------------------------
(* The rate limiter around /ping, and the clock *)

Tick ==
    /\ nupd < MaxTicks
    /\ nupd' = nupd + 1
    /\ \E d \in TickSteps : now' = now + d
    /\ UNCHANGED <<adders, store, sessions, rateLimit, upd, out, flow, ret, cmds, blk, blacklist, chk, state, restricted, quiz, race, exec>>

\* the last MaxCmds commands of a user
Remember(cs, c) ==
    IF Len(cs) < MaxCmds THEN Append(cs, c) ELSE Append(Tail(cs), c)

\* where /ping comes from: user 1 sends it in either chat, user 2 in the private chat, and
\* an update without a sender (a channel post) comes from a group
PingChats ==
    [u \in UserIDs \cup {NoSender} |->
        IF u = 1 THEN ChatTypes ELSE IF u = NoSender THEN {ChatGroup} ELSE {ChatPrivate}]

\* "/ping", registered as RateLimit(HandlePing)
PingCommand ==
    \E u \in UserIDs \cup {NoSender} : \E chatType \in PingChats[u] :
        LET res == RateLimit(rateLimit, u, chatType, now) IN
        /\ rateLimit' = res.rateLimit
        /\ out' = res.out
        /\ upd' = [kind |-> "/ping", user |-> u, chat |-> chatType, cb |-> NoCallback,
                   text |-> <<>>, step |-> StepNone, panic |-> FALSE,
                   by |-> IF res.passed THEN "handler" ELSE "",
                   users |-> <<>>, newbie |-> IsNewbie(state, u), io |-> AllOK]
        /\ cmds' = IF u = NoSender THEN cmds
                   ELSE [cmds EXCEPT ![u] = Remember(@, [t |-> now, passed |-> res.passed])]
        /\ UNCHANGED <<adders, store, sessions, now, flow, ret, blk, blacklist, chk, state, restricted, quiz, nupd, race, exec>>

NextRL == Tick \/ PingCommand

SpecRL == Init /\ [][NextRL]_vars

----------------------------------------------------------------------------
(* handleAdminBlock step by step, beside submissions and another admin's decisions *)

\* a press of a block button: the ID is parsed and the review looked up
BlockPress ==
    /\ nupd < MaxStoreOps
    /\ nupd' = nupd + 1
    /\ blk.pc \in {0, Len(BlockSteps) + 1}
    /\ \E id \in AdminIDs :
          LET review == GetReview(store, id) IN
          /\ upd' = [NoUpdate EXCEPT !.kind = "callback", !.user = 2, !.chat = ChatGroup,
                                     !.cb = ButtonData(TokArg("rate_block_", Itoa(id)))]
          /\ IF review = 0
             THEN blk' = BlkIdle /\ out' = <<Respond(AdminChatID)>>
             ELSE /\ blk' = [pc |-> 1, id |-> id, author |-> store.Reviews[review].UserID,
                             done |-> <<>>]
                  /\ out' = <<>>
    /\ UNCHANGED <<adders, store, sessions, rateLimit, now, flow, ret, cmds, blacklist, chk, state, restricted, quiz, race, exec>>

\* the next step of the call in progress
BlockStep ==
    /\ nupd < MaxStoreOps
    /\ nupd' = nupd + 1
    /\ blk.pc \in DOMAIN BlockSteps
    /\ blk' = [blk EXCEPT !.pc = @ + 1, !.done = Append(@, BlockSteps[blk.pc])]
    /\ \E w \in WriteOutcomes :
          store' = IF BlockSteps[blk.pc] = "UpdateReviewStatus"
                   THEN UpdateReviewStatus(store, blk.id, "rejected", w).rs
                   ELSE IF BlockSteps[blk.pc] = "BlockUser"
                   THEN BlockUser(store, blk.author, w)
                   ELSE store
    /\ out' = IF BlockSteps[blk.pc] = "Edit"
              THEN <<Edit(AdminChatID, "Rating.StatusBlocked"), Respond(AdminChatID)>>
              ELSE out
    /\ UNCHANGED <<adders, sessions, rateLimit, now, upd, flow, ret, cmds, blacklist, chk, state, restricted, quiz, race, exec>>

NextBlock == StoreAdd \/ StoreUpdate \/ BlockPress \/ BlockStep

SpecBlock == Init /\ [][NextBlock]_vars

----------------------------------------------------------------------------
(* The Blacklist alone: its calls in any order, writes that may fail, restarts *)

WordSpam == <<"s", "p", "a", "m">>
WordSpamCased == <<"S", "p", "a", "m">>
WordBuy == <<"b", "u", "y">>
WordNow == <<"N", "O", "W">>

\* the token lists /banword and /unbanword pass on: non-empty lists of space-free tokens
PhraseInputs == {<<WordSpam>>, <<WordSpamCased>>, <<WordBuy, WordNow>>}

TextBuySpamNow == <<"b", "u", "y", " ", "s", "p", "a", "m", " ", "n", "o", "w">>
TextSpammer == <<"s", "p", "a", "m", "m", "e", "r">>
TextNowBuy == <<"n", "o", "w", " ", "i", "s", " ", "t", "h", "e", " ", "t", "i", "m", "e", " ", "t", "o", " ", "b", "u", "y">>
TextBuyLater == <<"b", "u", "y", " ", "l", "a", "t", "e", "r">>
TextShouted == <<"C", "h", "e", "a", "p", " ", "S", "P", "A", "M", "\t", "N", "O", "W", "H", "E", "R", "E">>
TextBuyer == <<"b", "u", "y", "e", "r", "s", " ", "k", "n", "o", "w">>

FilterTexts ==
    {TextBuySpamNow, TextSpammer, TextNowBuy, TextBuyLater, TextShouted, TextBuyer, <<>>}

\* one call on the blacklist
FilterCalled(b, op, words, ok) ==
    /\ nupd < MaxFilterOps
    /\ nupd' = nupd + 1
    /\ blacklist' = b
    /\ chk' = [op |-> op, words |-> words, ok |-> ok]
    /\ UNCHANGED <<adders, store, sessions, rateLimit, now, upd, out, flow, ret, cmds, blk, state, restricted, quiz, race, exec>>

FilterAdd ==
    \E words \in PhraseInputs, w \in WriteOutcomes :
        FilterCalled(AddPhrase(blacklist, words, w), "AddPhrase", words, TRUE)

FilterRemove ==
    \E words \in PhraseInputs, w \in WriteOutcomes :
        LET res == RemovePhrase(blacklist, words, w)
        IN FilterCalled(res.b, "RemovePhrase", words, res.ok)

FilterCheck ==
    \E msg \in FilterTexts :
        FilterCalled(blacklist, "CheckMessage", msg, CheckMessage(blacklist, msg))

\* the process restarts: NewBlacklist reads the file again
FilterReload == FilterCalled(NewBlacklist(blacklist.file), "load", <<>>, TRUE)

NextFilter == FilterAdd \/ FilterRemove \/ FilterCheck \/ FilterReload

SpecFilter == Init /\ [][NextFilter]_vars

\* AddPhrase with no words: the list gets a phrase of zero tokens
FilterAddNone ==
    \E w \in WriteOutcomes :
        FilterCalled(AddPhrase(blacklist, <<>>, w), "AddPhrase", <<>>, TRUE)

NextPhrases == FilterAdd \/ FilterAddNone \/ FilterRemove \/ FilterCheck \/ FilterReload

\* the blacklist with phrases of any number of tokens, zero included
SpecPhrases == Init /\ [][NextPhrases]_vars

----------------------------------------------------------------------------
(* Verification alone: joins, leaves and the presses of the welcome and quiz buttons *)

\* one update of the group chat handled by the FeatureHandler, with result res
VerifHandled(ev, res) ==
    /\ nupd < MaxQuizUpdates
    /\ nupd' = nupd + 1
    /\ state' = res.state
    /\ restricted' = res.restricted
    /\ out' = res.out
    /\ upd' = ev
    /\ quiz' = [v \in UserIDs |-> TrackQuiz(quiz[v], v, ev, state, res)]
    /\ UNCHANGED <<adders, store, sessions, rateLimit, now, flow, ret, cmds, blk, blacklist, chk, race, exec>>

\* an update of the group chat
GroupUpdate(kind, u, cb, users) ==
    [NoUpdate EXCEPT !.kind = kind, !.user = u, !.chat = ChatGroup, !.cb = cb,
                     !.users = users, !.newbie = IsNewbie(state, u)]

\* the users one join message brings
JoinInputs == {<<1>>, <<2>>, <<1, 2>>}

\* tb.OnUserJoined
UserJoined ==
    \E users \in JoinInputs, ok \in RestrictOutcomes :
        VerifHandled([GroupUpdate("join", NoSender, NoCallback, users)
                         EXCEPT !.io.restrict = ok],
                     HandleUserJoined(state, restricted, users, ok))

\* tb.OnUserLeft
UserLeft ==
    \E left \in UserIDs :
        VerifHandled(GroupUpdate("left", left, NoCallback, <<>>),
                     HandleUserLeft(state, restricted, left))

\* a press of the student button of a welcome message
StudentButton ==
    \E u \in UserIDs :
        VerifHandled(GroupUpdate("student", u, ButtonUnique(Tok("student")), <<>>),
                     OnlyNewbies(state, restricted, u, HandleStudent(state, restricted, u)))

\* a press of the guest button of a welcome message
GuestButton ==
    \E u \in UserIDs, ok \in RestrictOutcomes :
        VerifHandled([GroupUpdate("guest", u, ButtonUnique(Tok("guest")), <<>>)
                         EXCEPT !.io.restrict = ok],
                     OnlyNewbies(state, restricted, u,
                                 HandleGuest(state, restricted, u, ok)))

\* the quiz buttons users press: the right one and a wrong one of every question
QuizPresses ==
    {<<i, DefaultQuiz[i].Answer>> : i \in DOMAIN DefaultQuiz} \cup
    {<<1, "q1_edupl">>, <<2, "q2_gmail">>, <<3, "q3_roz">>}

\* a press of a quiz button, registered by RegisterQuizHandlers
QuizButton ==
    \E u \in UserIDs \cup {NoSender}, press \in QuizPresses, ok \in RestrictOutcomes :
        VerifHandled([GroupUpdate("quiz", u, ButtonUnique(Tok(press[2])), <<>>)
                         EXCEPT !.io.restrict = ok],
                     OnlyNewbies(state, restricted, u,
                                 CreateQuizHandler(state, restricted, u, press[1],
                                                   press[2], ok)))

NextQuiz == UserJoined \/ UserLeft \/ StudentButton \/ GuestButton \/ QuizButton

SpecQuiz == Init /\ [][NextQuiz]_vars

----------------------------------------------------------------------------
(* Two handlers of one user's updates that run at once: telebot starts every handler  *)
(* in a goroutine of its own. A handler is followed from one acquisition of a lock to *)
(* the next: rh.sessionsMu guards the map of session pointers only (getSession,       *)
(* clearSession, hasActiveSession), the store's lock guards AddReview; the fields of  *)
(* a session are read and written through the pointer with no lock held.              *)

Quiet == [watch |-> FALSE, track |-> FALSE, max |-> MaxRaceUpdates]

\* the user whose handlers run at once, and the review text this user sends
RaceUser == 1
RaceText == Rep("g", 10)
\* a press of rate_submit, a press of rate_cancel, a private text message
RaceKinds == {"submit", "cancel", "text"}
RaceButton(kind) == IF kind = "submit" THEN SubmitButton ELSE CancelButton

\* what the user sends before: /rate, the public type, a name, a score, a review text
RacePresses == [u \in UserIDs |-> IF u = RaceUser THEN {TypeButton(FALSE), ScoreButton(4)} ELSE {}]
RaceInputs == {<<" ">> \o NameJane \o <<" ">>, RaceText}

\* the session map as the handlers see it: the objects the map points to
SessionsOf(heap, smap) == [u \in DOMAIN smap |-> heap[smap[u]]]

\* a handler that has not started: HandleRateCallback starts with getSession,
\* handleTextMessage with the hasActiveSession of HandleRateText
RaceHandler(kind) ==
    [kind |-> kind, pc |-> IF kind = "text" THEN "has" ELSE "get", ptr |-> 0,
     review |-> <<>>, late |-> FALSE, panic |-> FALSE]

\* the inbound updates handled one at a time, before the two handlers start
RaceDialogue ==
    /\ race.phase = "idle"
    /\ race' = race
    /\ \/ RateCommand({ChatPrivate}, MessageIDs, Quiet)
       \/ RateButton(RacePresses, Quiet)
       \/ TextMessage({ChatPrivate}, RaceInputs, Quiet)

\* two updates of RaceUser arrive and their handlers are started
RaceStart ==
    \E k1 \in RaceKinds, k2 \in RaceKinds :
        /\ race.phase = "idle"
        /\ race' = [phase |-> "run",
                    heap |-> sessions,
                    smap |-> [u \in DOMAIN sessions |-> u],
                    h |-> <<RaceHandler(k1), RaceHandler(k2)>>,
                    ss0 |-> sessions, rs0 |-> store]
        /\ UNCHANGED <<adders, store, sessions, rateLimit, now, upd, out, flow, ret, cmds, blk,
                       blacklist, chk, state, restricted, quiz, nupd, exec>>

\* the heap, the map, the store and handler i after the next step of handler i
RaceNext(i) ==
    LET me == race.h[i]
        u == RaceUser
        heap == race.heap
        smap == race.smap
        same == [heap |-> heap, smap |-> smap, rs |-> store, me |-> me]
        fresh == Cardinality(UserIDs \cup DOMAIN heap) + 1
    IN IF me.pc = "has"
       \* hasActiveSession, under the read lock; with no active session the text goes on
       \* to HandleSearchText (no session here is in search mode) and the phrase filter
       THEN [same EXCEPT !.me.pc = IF hasActiveSession(SessionsOf(heap, smap), u)
                                   THEN "get" ELSE "done"]
       ELSE IF me.pc = "get"
       \* getSession, under the lock: the pointer in the map, or a new session
       THEN LET after == IF me.kind = "submit" THEN "read"
                         ELSE IF me.kind = "cancel" THEN "clear" ELSE "step"
            IN IF u \in DOMAIN smap
               THEN [same EXCEPT !.me.ptr = smap[u], !.me.pc = after]
               ELSE [same EXCEPT
                       !.heap = [o \in DOMAIN heap \cup {fresh} |->
                                    IF o = fresh THEN NewSession ELSE heap[o]],
                       !.smap = [v \in DOMAIN smap \cup {u} |->
                                    IF v = u THEN fresh ELSE smap[v]],
                       !.me.ptr = fresh, !.me.pc = after]
       ELSE IF me.pc = "read"
       \* submitReview builds the review from the fields of the session
       THEN LET session == heap[me.ptr]
                username == IF SenderUsername(u) = "" THEN SenderFirstName(u)
                            ELSE SenderUsername(u)
            IN [same EXCEPT
                  !.me.review = <<[ID |-> 0, UserID |-> u, Username |-> username,
                                   IsAnonymous |-> session.IsAnonymous,
                                   Professor |-> session.Professor,
                                   Score |-> session.Score, Text |-> session.Text,
                                   Status |-> "pending", CreatedAt |-> 0]>>,
                  !.me.pc = "add"]
       ELSE IF me.pc = "add"
       \* rh.store.AddReview, under the store's lock
       THEN [same EXCEPT !.rs = AddReview(store, me.review[1], now, TRUE).rs,
                         !.me.pc = "clear"]
       ELSE IF me.pc = "clear"
       \* clearSession, under the lock
       THEN [same EXCEPT !.smap = [v \in DOMAIN smap \ {u} |-> smap[v]],
                         !.me.pc = "done"]
       ELSE IF me.pc = "step"
       \* HandleRateText: switch session.Step; RaceText is no name and a valid review text
       THEN IF heap[me.ptr].Step = StepEnterReview THEN [same EXCEPT !.me.pc = "text"]
            ELSE IF heap[me.ptr].Step = StepEnterName THEN [same EXCEPT !.me.pc = "done"]
            ELSE [same EXCEPT !.me.pc = "done", !.me.panic = TRUE]
       ELSE IF me.pc = "text"
       \* session.Text = text
       THEN [same EXCEPT !.heap[me.ptr].Text = TrimSpace(RaceText), !.me.pc = "confirm"]
       \* session.Step = StepConfirm
       ELSE [same EXCEPT !.heap[me.ptr].Step = StepConfirm, !.me.pc = "done"]

\* one step of one of the two handlers; late records that the other handler had
\* completed before this one started
RaceStep ==
    \E i \in 1..2 :
        /\ race.phase = "run"
        /\ race.h[i].pc # "done"
        /\ LET next == RaceNext(i)
               late == IF race.h[i] = RaceHandler(race.h[i].kind)
                       THEN race.h[3 - i].pc = "done" ELSE race.h[i].late
           IN /\ race' = [race EXCEPT !.heap = next.heap, !.smap = next.smap,
                                      !.h[i] = [next.me EXCEPT !.late = late]]
              /\ sessions' = SessionsOf(next.heap, next.smap)
              /\ store' = next.rs
        /\ UNCHANGED <<adders, rateLimit, now, upd, out, flow, ret, cmds, blk, blacklist, chk,
                       state, restricted, quiz, nupd, exec>>

NextRace == RaceDialogue \/ RaceStart \/ RaceStep

\* the rating dialogue of a user, and then two handlers of this user's updates at once
SpecRace == Init /\ [][NextRace]_vars

----------------------------------------------------------------------------
(* The locks a handler takes and the transport calls it makes, in the order of its code *)

Lock(mu) == [ev |-> "lock", on |-> mu]
Unlock(mu) == [ev |-> "unlock", on |-> mu]
\* a call of the bot: Send, Edit, Delete, Respond
Transport(call) == [ev |-> "call", on |-> call]
\* os.WriteFile of save
WriteFile == [ev |-> "file", on |-> "os.WriteFile"]
\* the rate limiter calls the handler it wraps
Invoke == [ev |-> "invoke", on |-> "handler"]

\* mu.Lock() (or RLock), the body, mu.Unlock() (deferred or not)
Critical(mu, body) == <<Lock(mu)>> \o body \o <<Unlock(mu)>>

\* getSession, clearSession, hasActiveSession, and the map accesses of
\* HandleRatingsCallback and HandleSearchText
SessionsMu == Critical("sessionsMu", <<>>)
\* GetReview, GetApprovedReviews, SearchReviews, IsBlocked
StoreRead == Critical("rs.mu", <<>>)
\* AddReview, UpdateReviewStatus, BlockUser: save is called with the lock held
StoreWrite(saves) == Critical("rs.mu", IF saves THEN <<WriteFile>> ELSE <<>>)
\* AddPhrase, RemovePhrase, CheckMessage, List
BlacklistMu(saves) == Critical("b.mu", IF saves THEN <<WriteFile>> ELSE <<>>)

\* HandlePing
HandlePingEvents(private) ==
    IF private THEN <<Transport("Send"), Transport("Edit")>> ELSE <<Transport("Send")>>

\* RateLimit with the lock held until the wrapper returns
RateLimitEventsDeferred(tooFast, wrapped) ==
    <<Lock("rlMu")>>
    \o (IF tooFast THEN <<Transport("Send")>> ELSE <<Invoke>> \o wrapped)
    \o <<Unlock("rlMu")>>

\* RateLimit around a handler whose events are wrapped
RateLimitEvents(tooFast, wrapped) ==
    Critical("rlMu", <<>>)
    \o (IF tooFast THEN <<Transport("Send")>> ELSE <<Invoke>> \o wrapped)

\* showRatingsPage: the reviews are read, then the page (or "nothing found") is sent
showRatingsPageEvents == StoreRead \o <<Transport("Send")>>

\* HandleRate
HandleRateEvents(private, blocked) ==
    IF ~private THEN <<>>
    ELSE StoreRead \o (IF blocked THEN <<Transport("Send")>>
                       ELSE SessionsMu \o <<Transport("Send")>>)

\* the cases of HandleRateCallback, handleAdminAction and handleAdminBlock
CallbackCases ==
    {"cancel", "type", "score", "submit", "unparsed", "missing", "decided",
     "blocked", "blockedAgain", "other"}

\* HandleRateCallback: getSession first, then the case
HandleRateCallbackEvents(case) ==
    SessionsMu \o
    (IF case = "cancel" THEN SessionsMu \o <<Transport("Edit"), Transport("Respond")>>
     ELSE IF case \in {"type", "score"} THEN <<Transport("Edit"), Transport("Respond")>>
     ELSE IF case = "submit"
     THEN StoreWrite(TRUE) \o SessionsMu
          \o <<Transport("Edit"), Transport("Send"), Transport("Respond")>>
     ELSE IF case = "missing" THEN StoreRead \o <<Transport("Respond")>>
     ELSE IF case = "decided"
     THEN StoreRead \o StoreWrite(TRUE)
          \o <<Transport("Edit"), Transport("Send"), Transport("Respond")>>
     ELSE IF case \in {"blocked", "blockedAgain"}
     THEN StoreRead \o StoreWrite(TRUE) \o StoreWrite(case = "blocked")
          \o <<Transport("Edit"), Transport("Respond")>>
     ELSE <<Transport("Respond")>>)

\* HandleRateText: nothing is sent when there is no active session or when it panics
HandleRateTextEvents(active, panics) ==
    SessionsMu \o (IF ~active THEN <<>>
                   ELSE SessionsMu \o (IF panics THEN <<>> ELSE <<Transport("Send")>>))

\* HandleSearchText
HandleSearchTextEvents(searching) ==
    SessionsMu \o (IF searching THEN SessionsMu \o showRatingsPageEvents ELSE <<>>)

\* HandleRatingsCallback
HandleRatingsCallbackEvents(case) ==
    IF case = "search" THEN SessionsMu \o <<Transport("Edit"), Transport("Respond")>>
    ELSE IF case = "page" THEN <<Transport("Delete")>> \o showRatingsPageEvents
    ELSE <<Transport("Respond")>>

\* the handlers that are followed, in each of their cases
HandlerEvents ==
    {RateLimitEvents(tooFast, HandlePingEvents(private)) : tooFast \in BOOLEAN, private \in BOOLEAN}
    \cup {HandleRateEvents(private, blocked) : private \in BOOLEAN, blocked \in BOOLEAN}
    \cup {HandleRateCallbackEvents(case) : case \in CallbackCases}
    \cup {HandleRateTextEvents(active, panics) \o HandleSearchTextEvents(searching) :
             active \in BOOLEAN, panics \in BOOLEAN, searching \in BOOLEAN}
    \cup {HandleRatingsCallbackEvents(case) : case \in {"search", "page", "other"}}
    \cup {showRatingsPageEvents}
    \cup {BlacklistMu(saves) : saves \in BOOLEAN}

\* an update arrives and its handler is started
ExecStart ==
    \E events \in HandlerEvents :
        /\ exec.pc = Len(exec.events)
        /\ exec' = [events |-> events, pc |-> 0, held |-> {}]
        /\ UNCHANGED <<adders, store, sessions, rateLimit, now, upd, out, flow, ret, cmds, blk,
                       blacklist, chk, state, restricted, quiz, nupd, race>>

\* the handler performs its next event
ExecStep ==
    /\ exec.pc < Len(exec.events)
    /\ LET e == exec.events[exec.pc + 1] IN
       exec' = [exec EXCEPT !.pc = exec.pc + 1,
                            !.held = IF e.ev = "lock" THEN exec.held \cup {e.on}
                                     ELSE IF e.ev = "unlock" THEN exec.held \ {e.on}
                                     ELSE exec.held]
    /\ UNCHANGED <<adders, store, sessions, rateLimit, now, upd, out, flow, ret, cmds, blk,
                   blacklist, chk, state, restricted, quiz, nupd, race>>

NextLocks == ExecStart \/ ExecStep

SpecLocks == Init /\ [][NextLocks]_vars

----------------------------------------------------------------------------
(* Presses that carry an approve / reject / block token, from any user in any chat *)

Audit == [watch |-> TRUE, track |-> FALSE, max |-> MaxAdminUpdates]

DecisionTags == {"rate_approve_", "rate_reject_", "rate_block_"}

\* what follows the prefix of a token that carries no review ID
Unparseable == {<<>>, <<"x">>, <<"x", "1">>, <<"_", "1">>, <<"-">>}
\* what follows the prefix of a token that Sscanf reads as review 1
ReadAsOne == {<<"1">>, <<"1", "x">>, <<" ", "1">>}

\* the presses: a token in the data field alone, in the short tag alone, and in the data
\* field of the cancel and of the search button
TokenPresses ==
    {ButtonData(TokArg(tag, arg)) : tag \in DecisionTags, arg \in Unparseable \cup ReadAsOne}
    \cup {[Unique |-> uq, Data |-> TokArg(tag, <<"1">>)] :
             uq \in {Tok("rate_cancel"), Tok("ratings_search")}, tag \in DecisionTags}
    \cup {ButtonUnique(TokArg(tag, <<"1">>)) : tag \in DecisionTags}

\* a user presses Submit in the private chat
SubmitPress == RateButton([u \in UserIDs |-> {SubmitButton}], Audit)

\* a press that carries a token, by any user, in the private chat of the user or in the
\* admin chat
TokenPress ==
    \E u \in UserIDs, chatType \in ChatTypes, cb \in TokenPresses :
        LET chat == IF chatType = ChatPrivate THEN u ELSE AdminChatID
            res == HandleCallback(sessions, store, u, chat, cb, now, AllOK)
        IN Handled(Update("callback", u, chatType, cb, <<>>, res), res, Audit)

NextAdmin == SubmitPress \/ TokenPress

SpecAdmin == Init /\ [][NextAdmin]_vars

----------------------------------------------------------------------------
(* AddReview, one statement at a time, called from two goroutines at once *)

\* a lock that never blocks
MuIgnored(a, g) == TRUE

\* rs.mu.Lock() returns only when no goroutine holds the lock
MuFree(a, g) == a.mu = 0

\* the statements of AddReview left alone by a step
AddKeeps == UNCHANGED <<sessions, rateLimit, now, upd, out, flow, ret, cmds, blk, blacklist,
                        chk, state, restricted, quiz, nupd, race, exec>>

\* a handler calls AddReview with its review and arrives at rs.mu.Lock()
AddCall(g) ==
    /\ adders.pc[g] = "idle" /\ adders.started < MaxAdds
    /\ \E r \in ReviewInputs :
          adders' = [adders EXCEPT !.pc[g] = "lock", !.r[g] = r, !.started = @ + 1]
    /\ UNCHANGED store /\ AddKeeps

\* rs.mu.Lock()
AddLock(g) ==
    /\ adders.pc[g] = "lock" /\ MuFree(adders, g)
    /\ adders' = [adders EXCEPT !.pc[g] = "id", !.mu = g]
    /\ UNCHANGED store /\ AddKeeps

\* r.ID = rs.NextID
AddAssign(g) ==
    /\ adders.pc[g] = "id"
    /\ adders' = [adders EXCEPT !.pc[g] = "next", !.r[g].ID = store.NextID]
    /\ UNCHANGED store /\ AddKeeps

\* rs.NextID++ ; r.CreatedAt = time.Now().Unix()
AddBump(g) ==
    /\ adders.pc[g] = "next"
    /\ store' = [store EXCEPT !.NextID = @ + 1]
    /\ adders' = [adders EXCEPT !.pc[g] = "append", !.r[g].CreatedAt = now \div Second]
    /\ AddKeeps

\* rs.Reviews = append(rs.Reviews, r)
AddAppend(g) ==
    /\ adders.pc[g] = "append"
    /\ store' = [store EXCEPT !.Reviews = Append(@, adders.r[g])]
    /\ adders' = [adders EXCEPT !.pc[g] = "save"]
    /\ AddKeeps

\* rs.save()
AddSave(g) ==
    /\ adders.pc[g] = "save"
    /\ \E w \in WriteOutcomes : store' = save(store, w)
    /\ adders' = [adders EXCEPT !.pc[g] = "unlock"]
    /\ AddKeeps

\* the deferred rs.mu.Unlock(), and the return of r.ID
AddUnlock(g) ==
    /\ adders.pc[g] = "unlock"
    /\ adders' = [adders EXCEPT !.pc[g] = "idle", !.mu = 0, !.done = @ + 1]
    /\ UNCHANGED store /\ AddKeeps

NextAdd ==
    \E g \in Goroutines :
        \/ AddCall(g) \/ AddLock(g) \/ AddAssign(g) \/ AddBump(g)
        \/ AddAppend(g) \/ AddSave(g) \/ AddUnlock(g)

SpecAdd == Init /\ [][NextAdd]_vars

----------------------------------------------------------------------------
(* The rating handler with writes that may fail, and restarts of the process *)

Faulty == [watch |-> TRUE, track |-> FALSE, max |-> MaxRestartUpdates]

\* the buttons pressed in the private chats
RestartPresses == [u \in UserIDs |-> {TypeButton(TRUE), SubmitButton}]

\* a press of a button of the rating dialogue; the write of the store may fail
FaultyRateButton ==
    \E u \in UserIDs, io \in {AllOK, WriteFails} : \E cb \in RestartPresses[u] :
        LET res == HandleCallback(sessions, store, u, u, cb, now, io)
        IN Handled([Update("callback", u, ChatPrivate, cb, <<>>, res) EXCEPT !.io = io],
                   res, Faulty)

\* a press of an approve / reject / block button; the write of the store may fail
FaultyAdminButton ==
    \E a \in AdminMembers, cb \in AdminPresses, io \in {AllOK, WriteFails} :
        LET res == HandleCallback(sessions, store, a, AdminChatID, cb, now, io)
        IN Handled([Update("callback", a, ChatGroup, cb, <<>>, res) EXCEPT !.io = io],
                   res, Faulty)

\* the process restarts: NewRatingHandler makes an empty session map and a store that
\* reads the file
Restart ==
    /\ nupd < MaxRestartUpdates
    /\ nupd' = nupd + 1
    /\ sessions' = <<>>
    /\ store' = NewRatingStore(store.file)
    /\ upd' = [NoUpdate EXCEPT !.kind = "restart"]
    /\ out' = <<>>
    /\ UNCHANGED <<adders, rateLimit, now, flow, ret, cmds, blk, blacklist, chk, state, restricted,
                   quiz, race, exec>>

NextRestart ==
    \/ RateCommand({ChatPrivate}, MessageIDs, Faulty)
    \/ FaultyRateButton
    \/ FaultyAdminButton
    \/ Restart

SpecRestart == Init /\ [][NextRestart]_vars

----------------------------------------------------------------------------
(* Properties of the rating dialogue *)

\* the notice of a new review among transport calls o: a message sent to the admin chat
AdminNotified(o) == \E i \in DOMAIN o : o[i].call = "Send" /\ o[i].chat = AdminChatID

\* the last review of the store
LastReview == store.Reviews[Len(store.Reviews)]

\* C1: a user who has just gone through /rate, a type, a valid name, a score in 1..5, a
\* valid text and submit has no session entry, and the store holds exactly one review more
\* than before the submit: that user's, pending, with the values chosen
RatingRoundTrip ==
    \A u \in UserIDs :
        flow[u].stage = 6 =>
            /\ u \notin DOMAIN sessions
            /\ Len(store.Reviews) = flow[u].before + 1
            /\ LastReview.IsAnonymous = flow[u].anon
            /\ LastReview.Professor = flow[u].name
            /\ LastReview.Score = flow[u].score
            /\ LastReview.Text = flow[u].text
            /\ LastReview.UserID = u
            /\ LastReview.Status = "pending"
            /\ Cardinality({i \in DOMAIN store.Reviews :
                              /\ store.Reviews[i].UserID = u
                              /\ store.Reviews[i].IsAnonymous = flow[u].anon
                              /\ store.Reviews[i].Professor = flow[u].name
                              /\ store.Reviews[i].Score = flow[u].score
                              /\ store.Reviews[i].Text = flow[u].text}) = 1

\* user 1 has just submitted an anonymous review of Jane Doe with score 2
RatingRoundTripDone ==
    /\ flow[1].stage = 6
    /\ flow[1].anon
    /\ flow[1].name = NameJane
    /\ flow[1].score = 2
    /\ flow[1].text = Rep("g", 10)

\* C2: a press of cancel by a user whose session is at a step other than None removes the
\* user's session entry and leaves the review store as it was
CancelClearsSession ==
    [][\A u \in UserIDs :
          (/\ upd'.kind = "callback" /\ upd'.user = u /\ upd'.cb = CancelButton
           /\ u \in DOMAIN sessions /\ sessions[u].Step # StepNone)
          => (u \notin DOMAIN sessions' /\ store' = store)]_vars

\* a user has just cancelled at the name step, after a review was stored
CancelledAtName ==
    /\ upd.kind = "callback" /\ upd.cb = CancelButton
    /\ upd.step = StepEnterName
    /\ upd.user \notin DOMAIN sessions
    /\ store.Reviews # <<>>

\* C3: a review is appended, and the admin chat is notified, only by a press of submit
\* made while the sender's session is at step Confirm
ReviewOnlyOnConfirmedSubmit ==
    [][(Len(store'.Reviews) > Len(store.Reviews) \/ AdminNotified(out'))
          => (/\ upd'.kind = "callback" /\ upd'.cb = SubmitButton
              /\ upd'.user \in DOMAIN sessions
              /\ sessions[upd'.user].Step = StepConfirm)]_vars

BlockButton(id) == ButtonData(TokArg("rate_block_", Itoa(id)))

\* C5: a press of block on an existing review leaves that review rejected and its author
\* blocked; from then on the author stays blocked, and a /rate of the author creates no
\* session and (in the private chat, the only place /rate answers) sends the blocked message
BlockRejectsAndBlocks ==
    [][/\ \A id \in AdminIDs : \A i \in DOMAIN store.Reviews :
            (upd'.kind = "callback" /\ upd'.cb = BlockButton(id) /\ store.Reviews[i].ID = id)
            => (/\ store'.Reviews[i].Status = "rejected"
                /\ IsBlocked(store', store.Reviews[i].UserID))
       /\ \A u \in UserIDs :
            IsBlocked(store, u)
            => (/\ IsBlocked(store', u)
                /\ (upd'.kind = "/rate" /\ upd'.user = u)
                   => (/\ sessions' = sessions
                       /\ store' = store
                       /\ upd'.chat = ChatPrivate
                          => out' = <<Send(u, "Rating.Blocked", <<>>)>>))]_vars

\* the author of a review rejected by a block has just sent /rate and got the blocked message
BlockedAuthorRefused ==
    /\ upd.kind = "/rate" /\ upd.chat = ChatPrivate
    /\ IsBlocked(store, upd.user)
    /\ upd.user \notin DOMAIN sessions
    /\ out = <<Send(upd.user, "Rating.Blocked", <<>>)>>
    /\ \E i \in DOMAIN store.Reviews :
          store.Reviews[i].UserID = upd.user /\ store.Reviews[i].Status = "rejected"

\* C6: once a user is blocked, no review of that user is appended to the store
BlockedNeverAppends ==
    [][\A u \in UserIDs :
          IsBlocked(store, u)
          => \A i \in (Len(store.Reviews) + 1)..Len(store'.Reviews) :
                store'.Reviews[i].UserID # u]_vars

\* the update that has just been handled is a text message of u that is a valid name
ValidNameSent(u) ==
    upd'.kind = "text" /\ upd'.user = u /\ upd'.chat = ChatPrivate
    /\ MatchName(TrimSpace(upd'.text))

\* the update that has just been handled is a text message of u that is a valid review text
ValidTextSent(u) ==
    upd'.kind = "text" /\ upd'.user = u /\ upd'.chat = ChatPrivate
    /\ ValidReviewText(TrimSpace(upd'.text))

\* the update that has just been handled is a press of button cb by u
Pressed(u, cb) == upd'.kind = "callback" /\ upd'.user = u /\ upd'.cb = cb

\* C14: the step of a user's session (None when the user has none) changes only along
\* None -> ChooseType on /rate, ChooseType -> EnterName on a type button, EnterName ->
\* ChooseScore on a valid name, ChooseScore -> EnterReview on a score button, EnterReview ->
\* Confirm on a valid text, Confirm -> None on submit, and any step -> None on cancel
StepsFollowTransitions ==
    [][\A u \in UserIDs :
          LET from == StepOf(sessions, u)
              to == StepOf(sessions', u)
          IN from # to =>
                \/ from = StepNone /\ to = StepChooseType
                   /\ upd'.kind = "/rate" /\ upd'.user = u
                \/ from = StepChooseType /\ to = StepEnterName
                   /\ \E anon \in BOOLEAN : Pressed(u, TypeButton(anon))
                \/ from = StepEnterName /\ to = StepChooseScore /\ ValidNameSent(u)
                \/ from = StepChooseScore /\ to = StepEnterReview
                   /\ \E n \in 1..5 : Pressed(u, ScoreButton(n))
                \/ from = StepEnterReview /\ to = StepConfirm /\ ValidTextSent(u)
                \/ from = StepConfirm /\ to = StepNone /\ Pressed(u, SubmitButton)
                \/ to = StepNone /\ Pressed(u, CancelButton)]_vars

\* C15: every review of the store has a score in 1..5, a text of 10..1000 characters and
\* a status among pending, approved, rejected
ReviewsWellFormed ==
    \A i \in DOMAIN store.Reviews :
        /\ store.Reviews[i].Score \in 1..5
        /\ Len(store.Reviews[i].Text) >= MinReviewLen
        /\ Len(store.Reviews[i].Text) <= MaxReviewLen
        /\ store.Reviews[i].Status \in {"pending", "approved", "rejected"}

----------------------------------------------------------------------------
(* Properties of the RatingStore *)

\* the reviews the store holds carry the IDs 1, 2, ... in append order, and the next ID follows
SequentialIDs ==
    /\ \A i \in DOMAIN store.Reviews : store.Reviews[i].ID = i
    /\ store.NextID = Len(store.Reviews) + 1

SameLetter(a, b) ==
    \/ a = b
    \/ \E k \in DOMAIN UpperLetters : {a, b} = {UpperLetters[k], LowerLetters[k]}
    \/ \E k \in DOMAIN UpperAccented : {a, b} = {UpperAccented[k], LowerAccented[k]}

\* name contains q, case ignored
ContainsIgnoringCase(name, q) ==
    \E i \in 0..(Len(name) - Len(q)) : \A j \in 1..Len(q) : SameLetter(name[i + j], q[j])

\* a review the moderators approved
Approved(r) == r.Status = "approved"

\* the queries searched for
SearchQueries ==
    { <<>>,
      <<"s", "m", "i", "t", "h">>,
      <<"S", "M", "I", "T", "H">>,
      <<"S", "m", "i", "t", "h", "s">>,
      <<"l", " ", "s">>,
      <<"J", "A", "N", "E">>,
      <<"x">> }

\* C7: SearchReviews(q) is the approved reviews whose professor name contains q, case
\* ignored, in the order in which they were appended
SearchIsApprovedMatches ==
    \A q \in SearchQueries :
        LET Hit(r) == Approved(r) /\ ContainsIgnoringCase(r.Professor, q)
        IN SearchReviews(store, q) = SelectSeq(store.Reviews, Hit)

\* of three reviews, "smith" finds the two approved ones, whose names spell it in two cases
SearchFoundBothCases ==
    /\ Len(store.Reviews) = 3
    /\ Len(SearchReviews(store, <<"s", "m", "i", "t", "h">>)) = 2
    /\ Len(SearchReviews(store, <<"S", "m", "i", "t", "h", "s">>)) = 1
    /\ \E i \in DOMAIN store.Reviews :
          store.Reviews[i].Professor = NameSmith /\ ~Approved(store.Reviews[i])

\* C8: GetApprovedReviews is the approved reviews, in the order in which they were
\* appended, whatever the order in which they were approved
ApprovedInAppendOrder ==
    LET got == GetApprovedReviews(store) IN
    /\ got = SelectSeq(store.Reviews, Approved)
    /\ \A i, j \in DOMAIN got : i < j => got[i].ID < got[j].ID

\* review 1 has just been approved, after review 2, and review 3 is rejected
ApprovedOutOfOrder ==
    /\ ret.op = "UpdateReviewStatus" /\ ret.id = 1 /\ ret.val = 1
    /\ Len(store.Reviews) = 3
    /\ store.Reviews[1].Status = "approved"
    /\ store.Reviews[2].Status = "approved"
    /\ store.Reviews[3].Status # "approved"
    /\ GetApprovedReviews(store) = <<store.Reviews[1], store.Reviews[2]>>

----------------------------------------------------------------------------
(* Properties of the rate limiter *)

\* the last command remembered of user u
LastCmd(u) == cmds[u][Len(cmds[u])]

\* C9: the first command of a user is handled; a later one is handled exactly when it
\* arrives a second or more after that user's previous command, and is otherwise dropped
\* with the warning; the commands of the other users play no part
RateLimitPerUser ==
    /\ \A u \in UserIDs :
          /\ (cmds[u] # <<>> /\ Len(cmds[u]) < MaxCmds) => cmds[u][1].passed
          /\ \A k \in 2..Len(cmds[u]) :
                cmds[u][k].passed <=> (cmds[u][k].t - cmds[u][k - 1].t >= Second)
    /\ (upd.kind = "/ping" /\ upd.user # NoSender)
       => /\ (upd.by = "handler") = LastCmd(upd.user).passed
          /\ LastCmd(upd.user).passed => out = HandlePing(upd.user, upd.chat)
          /\ ~LastCmd(upd.user).passed
             => out = <<Send(ChatOf(upd.user, upd.chat), "RateLimit.TooFast", <<>>)>>

\* user 1: handled, dropped half a second later, handled a second after that, while
\* user 2 had a command handled in between
PassedDroppedPassed ==
    /\ Len(cmds[1]) = 3
    /\ cmds[1][1].passed /\ ~cmds[1][2].passed /\ cmds[1][3].passed
    /\ cmds[1][2].t - cmds[1][1].t = Second \div 2
    /\ cmds[1][3].t - cmds[1][2].t = Second
    /\ cmds[2] # <<>>
    /\ LastCmd(2).passed
    /\ LastCmd(2).t = cmds[1][2].t

\* C10: a command, dropped or not, leaves its time as the timestamp of its user; of
\* three commands of a user, the first handled and the others 600 and 1200 ms after it
\* (at 0, 600 and 1200 ms, say), only the first is handled
DroppedCommandRestartsWindow ==
    \A u \in UserIDs :
        /\ cmds[u] # <<>> => (u \in DOMAIN rateLimit /\ rateLimit[u] = LastCmd(u).t)
        /\ (/\ Len(cmds[u]) = 3
            /\ cmds[u][1].passed
            /\ cmds[u][2].t - cmds[u][1].t = (Second * 6) \div 10
            /\ cmds[u][3].t - cmds[u][1].t = (Second * 12) \div 10)
           => (~cmds[u][2].passed /\ ~cmds[u][3].passed)

\* user 1 sent commands at 0, 600 and 1200 ms: the third was dropped 1200 ms after the
\* last handled one
ThirdDroppedAfterDrop ==
    /\ Len(cmds[1]) = 3
    /\ cmds[1][1].t = 0 /\ cmds[1][1].passed
    /\ cmds[1][2].t = (Second * 6) \div 10 /\ ~cmds[1][2].passed
    /\ cmds[1][3].t = (Second * 12) \div 10 /\ ~cmds[1][3].passed
    /\ rateLimit[1] = (Second * 12) \div 10

----------------------------------------------------------------------------
(* Properties of the admin decisions *)

Decisions ==
    {[tag |-> "rate_approve_", status |-> "approved",
      edit |-> "Rating.StatusApproved", note |-> "Rating.ReviewApproved"],
     [tag |-> "rate_reject_", status |-> "rejected",
      edit |-> "Rating.StatusRejected", note |-> "Rating.ReviewRejected"]}

DecisionButton(tag, id) == ButtonData(TokArg(tag, Itoa(id)))

\* the positions of o holding a transport call among calls
CallsOf(o, calls) == {k \in DOMAIN o : o[k].call \in calls}

\* C19: an approve or reject press with an unknown review ID changes no status, edits no
\* message and notifies nobody; with a known ID the review's status becomes the decision,
\* the admin message is edited with the matching suffix and exactly one notification goes
\* to the author, and the status is set whether or not that notification is delivered
ResolveDecides ==
    [][\A d \in Decisions : \A id \in AdminIDs :
          (upd'.kind = "callback" /\ upd'.cb = DecisionButton(d.tag, id))
          => IF \A i \in DOMAIN store.Reviews : store.Reviews[i].ID # id
             THEN /\ store' = store
                  /\ CallsOf(out', {"Edit", "Send", "SendFailed"}) = {}
             ELSE /\ \A i \in DOMAIN store.Reviews :
                        store'.Reviews[i].Status =
                            IF store.Reviews[i].ID = id THEN d.status
                                                        ELSE store.Reviews[i].Status
                  /\ \E k \in DOMAIN out' : out'[k] = Edit(AdminChatID, d.edit)
                  /\ Cardinality(CallsOf(out', {"Edit"})) = 1
                  /\ Cardinality(CallsOf(out', {"Send", "SendFailed"})) = 1
                  /\ \A k \in CallsOf(out', {"Send", "SendFailed"}) :
                        /\ out'[k].key = d.note
                        /\ \E i \in DOMAIN store.Reviews :
                              store.Reviews[i].ID = id /\ out'[k].chat = store.Reviews[i].UserID]_vars

\* an approval whose notification could not be delivered, the review approved all the same
ApprovedThoughNotNotified ==
    /\ upd.kind = "callback" /\ upd.cb = DecisionButton("rate_approve_", 1)
    /\ \E k \in DOMAIN out : out[k].call = "SendFailed" /\ out[k].chat \in UserIDs
    /\ \E i \in DOMAIN store.Reviews :
          store.Reviews[i].ID = 1 /\ store.Reviews[i].Status = "approved"

\* has the call in progress done step s
BlkDone(s) == \E k \in DOMAIN blk.done : blk.done[k] = s

\* the state of the call in progress respects the order reject, block, edit
BlockOrdered ==
    /\ blk.pc > 0 =>
          /\ \A k \in DOMAIN blk.done :
                blk.done[k] = <<"UpdateReviewStatus", "BlockUser", "Edit">>[k]
          /\ BlkDone("BlockUser") =>
                /\ IsBlocked(store, blk.author)
                /\ \A i \in DOMAIN store.Reviews :
                      store.Reviews[i].ID = blk.id => store.Reviews[i].Status # "pending"
          /\ BlkDone("Edit") <=> out = <<Edit(AdminChatID, "Rating.StatusBlocked"),
                                         Respond(AdminChatID)>>
    /\ (upd.kind = "callback" /\ blk = BlkIdle) => out = <<Respond(AdminChatID)>>

\* C20: handleAdminBlock sets the review rejected, then blocks the author, then edits the
\* admin message: once it has blocked the author the triggering review is not pending, it
\* edits only after both, and a press with an unknown ID changes nothing in the store
BlockRejectsFirst ==
    [][/\ BlockOrdered'
       /\ (upd' # upd /\ upd'.kind = "callback" /\ blk' = BlkIdle) => store' = store]_vars

\* the author has been blocked by a call that has rejected the review and edited the message
BlockedAfterRejected ==
    /\ blk.done = BlockSteps
    /\ IsBlocked(store, blk.author)
    /\ \E i \in DOMAIN store.Reviews :
          store.Reviews[i].ID = blk.id /\ store.Reviews[i].Status = "rejected"
    /\ out = <<Edit(AdminChatID, "Rating.StatusBlocked"), Respond(AdminChatID)>>

----------------------------------------------------------------------------
(* Properties of the Blacklist *)

\* the whitespace-separated tokens of t: its maximal runs of non-space characters
TokensOf(t) ==
    {SubSeq(t, ij[1], ij[2]) : ij \in
        {ij \in (1..Len(t)) \X (1..Len(t)) :
            /\ ij[1] <= ij[2]
            /\ \A k \in ij[1]..ij[2] : ~IsSpace(t[k])
            /\ (ij[1] = 1 \/ IsSpace(t[ij[1] - 1]))
            /\ (ij[2] = Len(t) \/ IsSpace(t[ij[2] + 1]))}}

\* p occurs in t at some position
OccursIn(p, t) ==
    \E i \in 1..(Len(t) + 1) :
        \A k \in 1..Len(p) : i + k - 1 <= Len(t) /\ t[i + k - 1] = p[k]

\* the list holds phrase p and nothing else
HoldsOnly(p) ==
    /\ blacklist.Phrases # <<>>
    /\ \A k \in DOMAIN blacklist.Phrases : blacklist.Phrases[k] = p

\* C16: CheckMessage is true iff some stored phrase matches: a phrase of one token when the
\* token equals one of the whitespace-separated tokens of the lowercased text, a phrase of
\* more tokens when every token occurs somewhere in the lowercased text; "spam" matches
\* "buy spam now" and not "spammer", buy+now matches "now is the time to buy" and not
\* "buy later"
FilterMatchesAsStated ==
    chk.op = "CheckMessage" =>
        /\ chk.ok <=>
              \E k \in DOMAIN blacklist.Phrases :
                  LET phrase == blacklist.Phrases[k] IN
                  \/ Len(phrase) = 1 /\ phrase[1] \in TokensOf(ToLower(chk.words))
                  \/ Len(phrase) > 1
                     /\ \A j \in DOMAIN phrase : OccursIn(phrase[j], ToLower(chk.words))
        /\ HoldsOnly(<<WordSpam>>) =>
              /\ chk.words = TextBuySpamNow => chk.ok
              /\ chk.words = TextSpammer => ~chk.ok
        /\ HoldsOnly(<<WordBuy, ToLower(WordNow)>>) =>
              /\ chk.words = TextNowBuy => chk.ok
              /\ chk.words = TextBuyLater => ~chk.ok

\* "spammer" has been checked against a list that holds "spam" and found clean
SpammerNotMatched ==
    /\ chk.op = "CheckMessage" /\ chk.words = TextSpammer /\ ~chk.ok
    /\ \E k \in DOMAIN blacklist.Phrases : blacklist.Phrases[k] = <<WordSpam>>

\* C17: the list never holds two phrases with the same space-joined form
NoDuplicatePhrases ==
    \A i \in DOMAIN blacklist.Phrases : \A j \in DOMAIN blacklist.Phrases :
        i # j => Join(blacklist.Phrases[i], <<" ">>) # Join(blacklist.Phrases[j], <<" ">>)

\* the phrases of list that differ from target, in their order
RECURSIVE Others(_, _)
Others(list, target) ==
    IF list = <<>> THEN <<>>
    ELSE IF Head(list) = target THEN Others(Tail(list), target)
    ELSE <<Head(list)>> \o Others(Tail(list), target)

\* C18: RemovePhrase returns true iff the list held a phrase equal to the lowercased
\* tokens; after true no such phrase remains and the others are kept in their order; after
\* false the list is as it was and the file has not been written
RemoveAsStated ==
    [][chk'.op = "RemovePhrase" =>
          LET target == [i \in DOMAIN chk'.words |-> ToLower(chk'.words[i])]
              held == \E k \in DOMAIN blacklist.Phrases : blacklist.Phrases[k] = target
          IN /\ chk'.ok <=> held
             /\ held => /\ \A k \in DOMAIN blacklist'.Phrases : blacklist'.Phrases[k] # target
                        /\ blacklist'.Phrases = Others(blacklist.Phrases, target)
             /\ ~held => blacklist' = blacklist]_vars

\* a remove has returned false while the file was behind the list, and it still is
RemoveMissedUnsaved ==
    /\ chk.op = "RemovePhrase" /\ ~chk.ok
    /\ blacklist.Phrases # <<>>
    /\ blacklist.file.phrases # blacklist.Phrases

----------------------------------------------------------------------------
(* Properties of the verification *)

\* the number of correct answers among answers
Correct(answers) == Cardinality({k \in DOMAIN answers : answers[k]})

QuizPassedBy(u) ==
    /\ upd'.kind = "quiz" /\ upd'.user = u
    /\ \E k \in DOMAIN out' : out'[k] = Edit(GroupChatID, "Quiz.VerificationPassed")

\* the update handled last is a join of u
JoinOf(u) == upd'.kind = "join" /\ u \in Range(upd'.users)

NewbieIffRestrictedIffQuiz ==
    \A u \in UserIDs :
        /\ IsNewbie(state, u) <=> u \in restricted
        /\ IsNewbie(state, u) <=> u \in DOMAIN state.UserCorrect

----------------------------------------------------------------------------
(* Properties of the RatingStore: what its calls leave alone *)

\* the last step was a call of an operation of the store (a restart is not one)
StoreCalled == ret' # ret /\ ret'.op \in {"AddReview", "UpdateReviewStatus", "BlockUser"}

\* review r without its status
Unjudged(r) == [r EXCEPT !.Status = ""]

\* C21: no operation of the store removes or reorders a review, and every field of a
\* review but its status stays as AddReview stored it
ReviewsAppendOnly ==
    [][StoreCalled =>
          /\ Len(store'.Reviews) >= Len(store.Reviews)
          /\ \A i \in DOMAIN store.Reviews :
                Unjudged(store'.Reviews[i]) = Unjudged(store.Reviews[i])]_vars

\* the first of two reviews has been approved and both are where they were
FirstOfTwoUpdated ==
    /\ ret.op = "UpdateReviewStatus" /\ ret.id = 1 /\ ret.val = 1
    /\ Len(store.Reviews) = 2
    /\ store.Reviews[1].ID = 1 /\ store.Reviews[1].Status = "approved"
    /\ store.Reviews[2].ID = 2 /\ store.Reviews[2].Status = "pending"

\* how often u is in the blocked list
TimesBlocked(rs, u) == Cardinality({k \in DOMAIN rs.BlockedUsers : rs.BlockedUsers[k] = u})

\* C22: BlockUser leaves the user blocked and in the list once; a block of a user who is
\* blocked already changes nothing in memory and writes nothing; no operation of the store
\* unblocks a user
BlockIdempotent ==
    [][StoreCalled =>
          /\ \A u \in UserIDs :
                /\ TimesBlocked(store', u) <= 1
                /\ IsBlocked(store, u) => IsBlocked(store', u)
          /\ ret'.op = "BlockUser" =>
                /\ IsBlocked(store', ret'.id)
                /\ IsBlocked(store, ret'.id) => store' = store]_vars

\* a user has been blocked a second time while the file did not hold the first block,
\* and it still does not
BlockedTwiceUnsaved ==
    /\ ret.op = "BlockUser" /\ ret.val = 1
    /\ TimesBlocked(store, ret.id) = 1
    /\ store.file.blocked_users = <<>>

\* C23: UpdateReviewStatus returns true iff a review has the ID; on true only the status
\* of that review changes; on false the store and its file are as they were
SetStatusOnlyKnown ==
    [][(ret' # ret /\ ret'.op = "UpdateReviewStatus") =>
          LET known == \E i \in DOMAIN store.Reviews : store.Reviews[i].ID = ret'.id
          IN /\ (ret'.val = 1) <=> known
             /\ known =>
                   /\ Len(store'.Reviews) = Len(store.Reviews)
                   /\ store'.BlockedUsers = store.BlockedUsers
                   /\ store'.NextID = store.NextID
                   /\ \A i \in DOMAIN store.Reviews :
                         /\ Unjudged(store'.Reviews[i]) = Unjudged(store.Reviews[i])
                         /\ store'.Reviews[i].Status # store.Reviews[i].Status
                            => /\ store.Reviews[i].ID = ret'.id
                               /\ \A j \in 1..(i - 1) : store.Reviews[j].ID # ret'.id
                   /\ \E i \in DOMAIN store.Reviews :
                         /\ store.Reviews[i].ID = ret'.id
                         /\ store'.Reviews[i].Status \in StatusInputs
             /\ ~known => store' = store]_vars

\* an unknown ID has been refused while the file was behind the memory, and it still is
UnknownRefusedUnsaved ==
    /\ ret.op = "UpdateReviewStatus" /\ ret.val = 0
    /\ store.Reviews # <<>>
    /\ Len(store.file.reviews) < Len(store.Reviews)

----------------------------------------------------------------------------
(* Properties of the end of the quiz *)

\* the update handled last is a press by newbie u of a button of the last question
LastAnswerBy(u) ==
    /\ upd' # upd /\ upd'.kind = "quiz" /\ upd'.user = u /\ upd'.newbie
    /\ QuestionOf(upd'.cb.Unique.tag) = Len(DefaultQuiz)

\* the handler that has just run told the group key
Told(key) == \E k \in DOMAIN out' : out'[k] = Edit(GroupChatID, key)

----------------------------------------------------------------------------
(* Properties of the handling of inbound updates *)

\* C25: no handler ends in a panic, whatever the update, the step of the sender's
\* session and the outcome of the handler's sends
NoUpdatePanics == ~upd.panic

\* text is two tokens of letters (Latin or accented) and nothing else
TwoLetterTokens(text) ==
    /\ Len(Fields(text)) = 2
    /\ \A i \in 1..2 : \A k \in DOMAIN Fields(text)[i] : IsNameLetter(Fields(text)[i][k])

\* the update handled last is a private text of user u, whose session was at step
TextAtStep(u, step) ==
    /\ upd' # upd /\ upd'.kind = "text" /\ upd'.chat = ChatPrivate
    /\ upd'.user = u /\ upd'.step = step

\* C26: a text that fails the validation of its step (EnterName: not two all-letter
\* tokens; EnterReview: fewer than 10 or more than 1000 characters after trimming) is
\* consumed and changes no session; a text that passes is stored and moves the session
\* one step on, to ChooseScore resp. Confirm
TextStepValidation ==
    [][\A u \in UserIDs :
          LET text == TrimSpace(upd'.text) IN
          /\ TextAtStep(u, StepEnterName) =>
                /\ upd'.by = "rating"
                /\ sessions' = IF TwoLetterTokens(text)
                               THEN [sessions EXCEPT ![u].Professor = text,
                                                     ![u].Step = StepChooseScore]
                               ELSE sessions
          /\ TextAtStep(u, StepEnterReview) =>
                /\ upd'.by = "rating"
                /\ sessions' = IF Len(text) >= MinReviewLen /\ Len(text) <= MaxReviewLen
                               THEN [sessions EXCEPT ![u].Text = text,
                                                     ![u].Step = StepConfirm]
                               ELSE sessions]_vars

\* user u is in search mode
InSearchMode(ss, u) == u \in DOMAIN ss /\ ss[u].MessageID = SearchMode

\* whom the claimed dispatch gives a text of user u
ClaimedConsumer(ss, u, chatType) ==
    IF chatType = ChatPrivate /\ StepOf(ss, u) # StepNone THEN "rating"
    ELSE IF chatType = ChatPrivate /\ InSearchMode(ss, u) THEN "search"
    ELSE "filter"

\* C27: a private text is consumed by the rating dialogue iff its sender's session is at
\* a step other than None, else by the search iff the sender is in search mode, else it
\* goes to the phrase filter; a text of another chat always goes to the phrase filter and
\* changes no session
TextDispatch ==
    [][(upd' # upd /\ upd'.kind = "text") =>
          /\ upd'.by = ClaimedConsumer(sessions, upd'.user, upd'.chat)
          /\ upd'.by = "filter" => sessions' = sessions]_vars

\* the sentinel state of the search: step None and MessageID -1
Sentinel(ss, u) == InSearchMode(ss, u) /\ ss[u].Step = StepNone

\* C28: a press of the search button leaves its user in the sentinel state; a private text
\* of a user in the sentinel state is answered as a search query and removes the session;
\* a text is a search query only in the sentinel state (so never at a rating step, and
\* not a second time) and rating input only outside it
SearchModeOnce ==
    [][upd' # upd =>
          LET u == upd'.user IN
          /\ (upd'.kind = "callback" /\ upd'.cb = SearchButton) => Sentinel(sessions', u)
          /\ (upd'.kind = "text" /\ upd'.chat = ChatPrivate /\ Sentinel(sessions, u)) =>
                /\ upd'.by = "search"
                /\ out' = showRatingsPage(store, u, 0, TrimSpace(upd'.text))
          /\ upd'.by = "search" =>
                /\ upd'.kind = "text" /\ upd'.chat = ChatPrivate
                /\ Sentinel(sessions, u) /\ upd'.step = StepNone
                /\ u \notin DOMAIN sessions'
                /\ \A v \in DOMAIN sessions \ {u} :
                      v \in DOMAIN sessions' /\ sessions'[v] = sessions[v]
          /\ upd'.by = "rating" => ~Sentinel(sessions, u) /\ upd'.step # StepNone]_vars

\* a query has been answered (nothing was found) and the session of its sender is gone
SearchAnswered ==
    /\ upd.kind = "text" /\ upd.by = "search" /\ upd.step = StepNone
    /\ upd.user \notin DOMAIN sessions
    /\ \E k \in DOMAIN out : out[k].key = "Rating.NoSearchResults"

----------------------------------------------------------------------------
(* Properties of handlers that run at once *)

\* the two handlers have both completed
RaceDone == race.phase = "run" /\ \A i \in 1..2 : race.h[i].pc = "done"

\* the handler of an update of RaceUser, run alone from session map ss and store rs
RaceAlone(kind, ss, rs) ==
    IF kind = "text" THEN handleTextMessage(ss, rs, RaceUser, ChatPrivate, RaceText)
    ELSE HandleCallback(ss, rs, RaceUser, RaceUser, RaceButton(kind), now, AllOK)

\* the second handler run after the first
RaceSerial(first, second, ss, rs) ==
    LET a == RaceAlone(first, ss, rs) IN RaceAlone(second, a.sessions, a.rs)

\* C29: two handlers of one user's updates that run at once leave the session map and the
\* store that one of the two serial executions leaves; two submits of one Confirm session
\* append one review, and a submit started after a cancel has completed appends none
RaceSerializable ==
    RaceDone =>
        /\ \E i \in 1..2 :
              LET r == RaceSerial(race.h[i].kind, race.h[3 - i].kind, race.ss0, race.rs0)
              IN sessions = r.sessions /\ store = r.rs
        /\ (/\ \A i \in 1..2 : race.h[i].kind = "submit"
            /\ StepOf(race.ss0, RaceUser) = StepConfirm) =>
              Len(store.Reviews) = Len(race.rs0.Reviews) + 1
        /\ \A i \in 1..2 :
              (race.h[i].kind = "submit" /\ race.h[i].late /\ race.h[3 - i].kind = "cancel") =>
                 Len(store.Reviews) = Len(race.rs0.Reviews)

----------------------------------------------------------------------------
(* Properties of the persistence of the RatingStore *)

\* the document of store rs holds the reviews, the blocked users and the next ID that rs
\* has in memory, and nothing else; a store that reads it is equal to rs
InSync(rs) ==
    /\ rs.file.exists
    /\ DOMAIN rs.file = {"exists", "reviews", "blocked_users", "next_id"}
    /\ Len(rs.file.reviews) = Len(rs.Reviews)
    /\ \A i \in DOMAIN rs.Reviews : UnmarshalReview(rs.file.reviews[i]) = rs.Reviews[i]
    /\ rs.file.blocked_users = rs.BlockedUsers
    /\ rs.file.next_id = rs.NextID
    /\ NewRatingStore(rs.file) = rs

\* C30: after a handler that has changed the store and whose write has succeeded, the
\* document equals the memory and a store reloaded from it equals the store, whatever
\* writes have failed before; a restart leaves no session and the store of the document
WriteThrough ==
    [][upd' # upd =>
          /\ (upd'.kind # "restart" /\ upd'.io.write /\ store' # store) => InSync(store')
          /\ upd'.kind = "restart" =>
                /\ sessions' = <<>>
                /\ store'.file = store.file
                /\ store.file.exists =>
                      /\ Len(store'.Reviews) = Len(store.file.reviews)
                      /\ \A i \in DOMAIN store'.Reviews :
                            MarshalReview(store'.Reviews[i]) = store.file.reviews[i]
                      /\ store'.BlockedUsers = store.file.blocked_users
                      /\ store'.NextID = store.file.next_id]_vars

\* the process has restarted after a block was written: no session is left and the store
\* holds the review and the blocked author that the document holds
RestartedAfterBlock ==
    /\ upd.kind = "restart"
    /\ sessions = <<>>
    /\ store.BlockedUsers # <<>> /\ store.Reviews # <<>>
    /\ InSync(store)

\* what store rs holds in memory
Memory(rs) == [rs EXCEPT !.file = NoFile]

\* the chat of the press recorded in ev
PressChat(ev) == IF ev.chat = ChatPrivate THEN ev.user ELSE AdminChatID

\* C31: a handler whose write of the store fails leaves in memory, and sends, what it
\* leaves and sends when the write succeeds (the notice of a new review carries the new
\* ID), and the document stays as it was
BestEffortPersistence ==
    [][(upd' # upd /\ upd'.kind = "callback" /\ ~upd'.io.write) =>
          LET written == HandleCallback(sessions, store, upd'.user, PressChat(upd'),
                                        upd'.cb, now, AllOK)
          IN /\ Memory(store') = Memory(written.rs)
             /\ sessions' = written.sessions
             /\ out' = written.out
             /\ store'.file = store.file
             /\ upd'.cb = SubmitButton =>
                   /\ Len(store'.Reviews) = Len(store.Reviews) + 1
                   /\ store'.Reviews[Len(store'.Reviews)].ID = store.NextID
                   /\ store'.NextID = store.NextID + 1
                   /\ \E k \in DOMAIN out' :
                         out'[k] = Send(AdminChatID, "Rating.NewReviewAdmin", <<store.NextID>>)]_vars

\* a block whose writes failed: the review is rejected and its author blocked in memory,
\* and the document has neither
BlockedInMemoryOnly ==
    /\ upd.kind = "callback" /\ ~upd.io.write
    /\ HasPrefix(CallbackID(upd.cb), "rate_block_")
    /\ store.BlockedUsers # <<>>
    /\ \E i \in DOMAIN store.Reviews : store.Reviews[i].Status = "rejected"
    /\ ~store.file.exists

----------------------------------------------------------------------------
(* Properties of the locks *)

\* C32: a handler makes no transport call while it holds a lock, and the rate limiter
\* holds its lock neither when it sends its warning nor when it calls the handler it wraps
NoCallUnderLock ==
    (exec.pc > 0 /\ exec.events[exec.pc].ev \in {"call", "invoke"}) => exec.held = {}

\* the rate limiter has taken and released its lock and has sent the warning
WarnedUnlocked ==
    /\ exec.pc = 3
    /\ exec.events[1] = Lock("rlMu") /\ exec.events[2] = Unlock("rlMu")
    /\ exec.events[3] = Transport("Send")
    /\ exec.held = {}

----------------------------------------------------------------------------
(* Properties of the approve / reject / block tokens *)

\* the token of a press: the data field when it is not empty, else the short tag
TokenOf(cb) == IF cb.Data # EmptyTok THEN cb.Data ELSE cb.Unique

\* the update handled last is a press whose token has a decision prefix
DecisionPress == upd' # upd /\ upd'.kind = "callback" /\ TokenOf(upd'.cb).tag \in DecisionTags

\* the status a decision token asks for
StatusAsked(tag) == IF tag = "rate_approve_" THEN "approved" ELSE "rejected"

\* C33: the token of a press is its data field when that is not empty and its short tag
\* otherwise: a press of the cancel button whose data field holds a decision on a stored
\* review decides the review and cancels nothing, and so does a press with the decision
\* in the short tag alone; a decision token without a review ID is acknowledged and
\* changes no review, blocks nobody and notifies nobody
ActionIdentity ==
    [][DecisionPress =>
          LET token == TokenOf(upd'.cb)
              chat == PressChat(upd')
          IN /\ token.arg \in Unparseable =>
                   /\ store' = store
                   /\ out' = <<Respond(chat)>>
             /\ (/\ token.arg = <<"1">>
                 /\ upd'.cb.Unique # Tok("ratings_search")
                 /\ \E i \in DOMAIN store.Reviews : store.Reviews[i].ID = 1) =>
                   /\ \A i \in DOMAIN store.Reviews :
                         store.Reviews[i].ID = 1 =>
                            store'.Reviews[i].Status = StatusAsked(token.tag)
                   /\ upd'.user \in DOMAIN sessions']_vars

\* a token without a review ID has been pressed while a review was pending, and the
\* review is pending still
UnparseableAcknowledged ==
    /\ upd.kind = "callback" /\ TokenOf(upd.cb).tag \in DecisionTags
    /\ TokenOf(upd.cb).arg = <<"x", "1">>
    /\ out = <<Respond(PressChat(upd))>>
    /\ Len(store.Reviews) = 1 /\ store.Reviews[1].Status = "pending"
    /\ store.BlockedUsers = <<>>

\* C34: a decision press changes a review status or the blocked set only when it comes
\* from the admin chat: pressed in any other chat it leaves reviews and blocked users
\* as they were
DecisionsFromAdminChat ==
    [][(DecisionPress /\ PressChat(upd') # AdminChatID) =>
          /\ store'.Reviews = store.Reviews
          /\ store'.BlockedUsers = store.BlockedUsers]_vars

----------------------------------------------------------------------------
(* Quiz presses of users who are not being verified *)

\* the update handled last is a quiz press of a user who is no newbie, or has no sender
StrangerPress ==
    /\ nupd' = nupd + 1 /\ upd'.kind = "quiz"
    /\ (upd'.user = NoSender \/ ~IsNewbie(state, upd'.user))

----------------------------------------------------------------------------
(* The count of correct answers when the verdict of a quiz is given *)

\* the update handled last is a press on the last question by a newbie with a counter:
\* the handler compares the count with 2
VerdictPress ==
    /\ nupd' = nupd + 1 /\ upd'.kind = "quiz"
    /\ upd'.user \in UserIDs /\ IsNewbie(state, upd'.user)
    /\ upd'.user \in DOMAIN state.UserCorrect
    /\ QuestionOf(upd'.cb.Unique.tag) = Len(DefaultQuiz)

\* the count the handler compares with 2: the counter after the press has been counted
CountAtVerdict ==
    TotalCorrect(state, upd'.user)
        + (IF upd'.cb.Unique.tag = DefaultQuiz[Len(DefaultQuiz)].Answer THEN 1 ELSE 0)

\* C36: when the verdict of a quiz is given, the count of correct answers is at most 3
\* and is the number of distinct questions the user answered correctly in that quiz,
\* also when a press is delivered twice
CountsEachQuestionOnce ==
    [][VerdictPress =>
          /\ CountAtVerdict <= Len(DefaultQuiz)
          /\ CountAtVerdict =
                Cardinality(quiz[upd'.user].right
                            \cup (IF upd'.cb.Unique.tag = DefaultQuiz[Len(DefaultQuiz)].Answer
                                  THEN {Len(DefaultQuiz)} ELSE {}))]_vars

----------------------------------------------------------------------------
(* The life of a review status *)

Decided == {"approved", "rejected"}

\* C37: a review is created pending, its status changes only in a step that handles an
\* approve, reject or block press, and a review that is approved or rejected is approved
\* or rejected after every step: it is never pending again
NeverPendingAgain ==
    [][/\ Len(store'.Reviews) >= Len(store.Reviews)
       /\ \A i \in DOMAIN store'.Reviews :
             IF i \in DOMAIN store.Reviews
             THEN /\ store'.Reviews[i].ID = store.Reviews[i].ID
                  /\ store.Reviews[i].Status \in Decided =>
                        store'.Reviews[i].Status \in Decided
                  /\ store'.Reviews[i].Status # store.Reviews[i].Status =>
                        /\ DecisionPress
                        /\ store'.Reviews[i].Status = StatusAsked(TokenOf(upd'.cb).tag)
             ELSE store'.Reviews[i].Status = "pending"]_vars

\* the author of review 1 is blocked, so the review has been rejected, and the review is
\* approved now while a later review is pending
ApprovedAfterBlock ==
    /\ Len(store.Reviews) = 2
    /\ store.Reviews[1].Status = "approved"
    /\ store.Reviews[1].UserID \in Range(store.BlockedUsers)
    /\ store.Reviews[2].Status = "pending"

\* the calls of a step that send a decision to the author of a review
DecisionNotices(o) ==
    {k \in DOMAIN o : /\ o[k].call \in {"Send", "SendFailed"}
                      /\ o[k].key \in {"Rating.ReviewApproved", "Rating.ReviewRejected"}}

\* C38: a review is decided once and its author is notified at most once: an approve or
\* reject press on a review that is already approved or rejected changes no status and
\* sends no notification, and no press sends more than one
OneDecisionPerReview ==
    [][DecisionPress =>
          /\ Cardinality(DecisionNotices(out')) <= 1
          /\ \A i \in DOMAIN store.Reviews :
                (/\ TokenOf(upd'.cb).tag \in {"rate_approve_", "rate_reject_"}
                 /\ TokenOf(upd'.cb).arg = Itoa(store.Reviews[i].ID)
                 /\ store.Reviews[i].Status \in Decided) =>
                   /\ store'.Reviews[i].Status = store.Reviews[i].Status
                   /\ DecisionNotices(out') = {}]_vars

----------------------------------------------------------------------------
(* The shape of the review list *)

\* the reviews carry the IDs 1..n in insertion order and NextID is n + 1
Sequential(rs) ==
    /\ \A i \in DOMAIN rs.Reviews : rs.Reviews[i].ID = i
    /\ rs.NextID = Len(rs.Reviews) + 1

\* C39: whenever the store's lock is free, so at every moment another handler can read
\* the store, the reviews carry the IDs 1..n in insertion order and NextID is n + 1, and
\* the store holds one review for every AddReview call that has returned, also when two
\* goroutines call AddReview at once
StoreShape ==
    adders.mu = 0 =>
        /\ Sequential(store)
        /\ Len(store.Reviews) = adders.done

\* two goroutines have called AddReview at once: one has returned, the other has been
\* waiting for the lock since before the first was given its ID
AddedWhileOtherWaits ==
    /\ adders.mu = 0 /\ adders.done = 2
    /\ \E g \in Goroutines : adders.pc[g] = "lock"
    /\ Len(store.Reviews) = 2
    /\ store.Reviews[1].UserID # store.Reviews[2].UserID

----------------------------------------------------------------------------
(* What a match of the blacklist needs *)

\* C40: CheckMessage returns true only if some stored phrase has a token that occurs in
\* the lowercased text: an empty list matches no text, and neither does a list whose
\* only phrases have zero tokens
MatchNeedsToken ==
    (chk.op = "CheckMessage" /\ chk.ok) =>
        \E k \in DOMAIN blacklist.Phrases :
            \E j \in DOMAIN blacklist.Phrases[k] :
                Contains(ToLower(chk.words), blacklist.Phrases[k][j])
====
